---- MODULE Spec2Model ----
(***************************************************************************)
(* The request pipeline of roux (src/src/client): the retry executor of    *)
(* ClientInner and OAuthClient, the ratelimiter behind its mutex, the      *)
(* Authed client's access-token cell with its re-login, and the            *)
(* unauthenticated client.  Each call is a process; a process step is one  *)
(* stretch of code between two points where another call can run.          *)
(*                                                                         *)
(* Instants are kept relative to the current instant, in microseconds:     *)
(* next_request = 0 means "now".  Time passes in Ratelimit::delay only.    *)
(***************************************************************************)
EXTENDS Integers, Sequences, FiniteSets, TLC

VARIABLES
    st,            \* per call: control point, locals of the running frames, history
    ratelimit,     \* ClientInner.ratelimit: the Ratelimit behind the mutex
    rl_holder,     \* the call holding the ratelimit mutex guard, 0 when free
    nohdr,         \* history: number of responses without X-Ratelimit-Remaining
    access_token,  \* AuthClientInner.access_token: the header value in the cell
    tok_writer,    \* the call holding the access_token write guard, 0 when free
    env,           \* the scenario: what the server and the callers may do
    calc           \* one evaluation of a function of the library: input, output

vars == <<st, ratelimit, rl_holder, nohdr, access_token, tok_writer, env, calc>>

----------------------------------------------------------------------------
(* Bounds of the model *)

NProcs == 2          \* calls in the concurrent scenario
MaxRetries == 65     \* retries of one execute frame in the single-call scenario
ConcRetries == 1     \* retries of one execute frame in the concurrent scenario
OpsRetries == 2      \* retries of the execute frame of login
MaxPathLen == 3      \* pieces of an endpoint's path
MaxQueryLen == 2     \* query pairs of an endpoint
MaxIdLen == 4        \* characters of a string given as a thing id
MaxLinkLen == 8      \* characters of a string given as a submission link
MaxChanged == 1      \* keys of the sample submission object given another value
MaxChildren == 2     \* children of a listing of replies
MaxUpdates == 3      \* Ratelimit::update calls in a sequence
MaxClock == 12       \* seconds the clock is advanced to between the calls
MaxNoHdr == 2        \* responses without ratelimit headers

Procs == 1..NProcs

----------------------------------------------------------------------------
(* Small helpers *)

Min(a, b) == IF a <= b THEN a ELSE b

Max(a, b) == IF a >= b THEN a ELSE b

RECURSIVE Pow2(_)
Pow2(n) == IF n = 0 THEN 1 ELSE 2 * Pow2(n - 1)

----------------------------------------------------------------------------
(* Program constants *)

WINDOW == 600                \* Ratelimit::WINDOW, seconds
INITIAL_REMAINING == 100     \* Ratelimit::new
MAX_DELAY_SECS == 10         \* the clamp of Ratelimit::update
MICROS == 1000000            \* Duration::from_micros of seconds * 1000 * 1000
BACKOFF_CAP_SECS == 60       \* min(60, 2u64.pow(retries))
U64_BITS == 64               \* width of 2u64
MAX_RETRIES_500 == 32        \* RetryExponential for INTERNAL_SERVER_ERROR
MAX_RETRIES_IO == 16         \* RetryExponential for ConnectionAborted/Reset

----------------------------------------------------------------------------
(* Header values are sequences of characters; "0xE9" stands for one byte   *)
(* that is not visible ASCII.                                              *)

Digits == <<"0", "1", "2", "3", "4", "5", "6", "7", "8", "9">>

IsDigit(c) == \E i \in 1..10 : Digits[i] = c

DigitVal(c) == (CHOOSE i \in 1..10 : Digits[i] = c) - 1

\* HeaderValue::to_str: Ok only when every byte is visible ASCII
ToStrOk(v) == \A i \in 1..Len(v) : v[i] # "0xE9"

RECURSIVE DigitsVal(_, _)
DigitsVal(s, acc) ==
    IF s = <<>> THEN acc ELSE DigitsVal(Tail(s), 10 * acc + DigitVal(Head(s)))

\* str::parse::<u64>: an optional '+', then at least one digit, nothing else
\* (the values of the model stay far below u64::MAX)
ParseU64(s) ==
    LET body == IF s # <<>> /\ Head(s) = "+" THEN Tail(s) ELSE s
    IN IF body # <<>> /\ \A i \in 1..Len(body) : IsDigit(body[i])
       THEN [ok |-> TRUE, val |-> DigitsVal(body, 0)]
       ELSE [ok |-> FALSE, val |-> 0]

----------------------------------------------------------------------------
(* Ratelimit (src/src/client/ratelimit.rs) *)

\* Ratelimit::new: next_request = now, next_reset = now + WINDOW
RatelimitNew ==
    [remaining |-> INITIAL_REMAINING, used |-> 0,
     next_request |-> 0, next_reset |-> WINDOW * MICROS]

\* mutant: no upper bound
clampUnbounded(min, value, max) == IF value < min THEN min ELSE value

clamp(min, value, max) ==
    IF value < min THEN min ELSE IF value > max THEN max ELSE value

NoRatelimit == [remaining |-> 0, used |-> 0, next_request |-> 0, next_reset |-> 0]

NoRatelimitHeaders == [present |-> FALSE, remaining |-> 0, used |-> 0, reset |-> 0]

\* mutant: without the header only `used` is counted
updateKeepsRemaining(rl, headers) ==
    IF ~headers.present THEN [rl EXCEPT !.used = @ + 1]
    ELSE [remaining |-> headers.remaining, used |-> headers.used,
          next_reset |-> headers.reset * MICROS, next_request |-> 0]

\* Ratelimit::update at the instant `now` = 0.  seconds_delay is
\* reset - (WINDOW - WINDOW / allowed * used); its microseconds are computed
\* exactly (the code rounds in f64), truncated as `us_delay as u64` does.
update(rl, headers) ==
    IF ~headers.present
    THEN [rl EXCEPT !.remaining = @ - 1, !.used = @ + 1]
    ELSE LET reset_us == headers.reset * MICROS
             allowed == headers.remaining + headers.used
             q == (WINDOW * headers.used) \div allowed
             r == (WINDOW * headers.used) % allowed
             taken_us == q * MICROS + (r * MICROS) \div allowed
             delay_us == reset_us - (WINDOW * MICROS - taken_us)
             us_delay == clamp(0, delay_us, MAX_DELAY_SECS * MICROS)
         IN IF headers.remaining <= 0
            THEN [remaining |-> headers.remaining, used |-> headers.used,
                  next_reset |-> reset_us, next_request |-> reset_us]
            ELSE [remaining |-> headers.remaining, used |-> headers.used,
                  next_reset |-> reset_us,
                  next_request |-> Min(us_delay, reset_us)]

\* mutant: delay returns at once
delayNoSleep(rl) == rl

\* Ratelimit::delay: sleep until next_request; the instants move with the clock
delay(rl) ==
    LET diff == Max(0, rl.next_request)
    IN [rl EXCEPT !.next_request = @ - diff, !.next_reset = @ - diff]

----------------------------------------------------------------------------
(* Responses of the server and errors of the transport *)

Body(json, text) == [json |-> json, text |-> text]

NoBody == Body("None", "")

\* A response (status >= 100) or a transport error (status = 0, io its cause)
Response(status, io, has_ra, ra, rlh, body) ==
    [status |-> status, io |-> io, has_retry_after |-> has_ra, retry_after |-> ra,
     rlh |-> rlh, body |-> body]

NoResponse == Response(0, "none", FALSE, <<>>, NoRatelimitHeaders, NoBody)

NoRequest == [target |-> "none", authorization |-> <<>>]

\* reqwest::Error values
StatusError(status) == [e |-> "status", status |-> status, io |-> "none"]

IoError(io) == [e |-> "io", status |-> 0, io |-> io]

DecodeError == [e |-> "decode", status |-> 0, io |-> "none"]

BuilderError == [e |-> "builder", status |-> 0, io |-> "none"]

NoError == [e |-> "none", status |-> 0, io |-> "none"]

\* Response::error_for_status_ref: an error for 4xx and 5xx only
error_for_status_ref(response) == response.status >= 400 /\ response.status <= 599

\* Response::json / parse_response_as_json: fails when the body cannot be read
\* or is not JSON of the expected type
JsonOk(body) == body.json \in {"Value", "AuthData", "ErrorData"}

\* Response::text: fails only when the body cannot be read
TextOk(body) == body.json # "Unreadable"

----------------------------------------------------------------------------
(* What a call returns: Ok, or a RouxError (src/src/util/error.rs) *)

Result(kind, status, error, text) ==
    [kind |-> kind, status |-> status, error |-> error, text |-> text]

Pending == Result("Pending", 0, NoError, "")

OkResponse(response) == Result("Ok", response.status, NoError, response.body.text)

credentials_not_set == Result("CredentialsNotSet", 0, NoError, "")

\* mutant: the error of the token endpoint is dropped
AuthWithoutError(s) == Result("Auth", 0, NoError, "")

auth(s) == Result("Auth", 0, NoError, s)

full_network(response, error) == Result("FullNetwork", response.status, error, "")

network(error) == Result("Network", 0, error, "")

reddit_error(body) == Result("RedditError", 0, NoError, body)

status(response) == Result("Status", response.status, NoError, "")

\* Ok(()) of logout
OkUnit == Result("Ok", 0, NoError, "")

\* an arithmetic overflow under overflow checks: the thread panics
Panic == Result("Panic", 0, NoError, "")

----------------------------------------------------------------------------
(* Classification of one attempt: convert_error and inner_execute *)

Class(k, secs, has_max, max_retries, error, text) ==
    [k |-> k, secs |-> secs, has_max |-> has_max, max_retries |-> max_retries,
     error |-> error, text |-> text]

ClassOk == Class("Ok", 0, FALSE, 0, NoError, "")

RetryAfter(secs) == Class("RetryAfter", secs, FALSE, 0, NoError, "")

RetryExponentialNone(error) == Class("RetryExponential", 0, FALSE, 0, error, "")

RetryExponentialSome(max, error) == Class("RetryExponential", 0, TRUE, max, error, "")

Unauthorized == Class("Unauthorized", 0, FALSE, 0, NoError, "")

BadRequest(body) == Class("BadRequest", 0, FALSE, 0, NoError, body)

OtherResponseError(error) == Class("OtherResponseError", 0, FALSE, 0, error, "")

Other(error) == Class("Other", 0, FALSE, 0, error, "")

\* the TOO_MANY_REQUESTS arm, the same in both convert_error functions
TooManyRequests(response, error) ==
    IF response.has_retry_after /\ ToStrOk(response.retry_after)
       /\ ParseU64(response.retry_after).ok
    THEN RetryAfter(ParseU64(response.retry_after).val)
    ELSE RetryExponentialNone(error)

\* mutant: every server error is retried like a 500
InnerConvertErrorRetry5xx(response, error) ==
    CASE error.status = 429 -> TooManyRequests(response, error)
      [] error.status >= 500 -> RetryExponentialSome(MAX_RETRIES_500, error)
      [] error.status = 401 -> Unauthorized
      [] OTHER -> OtherResponseError(error)

\* ClientInner::convert_error (src/src/client/inner.rs)
InnerConvertError(response, error) ==
    CASE error.status = 429 -> TooManyRequests(response, error)
      [] error.status = 500 -> RetryExponentialSome(MAX_RETRIES_500, error)
      [] error.status = 401 -> Unauthorized
      [] OTHER -> OtherResponseError(error)

\* OAuthClient::convert_error (src/src/client/oauth.rs)
OAuthConvertError(response, error) ==
    CASE error.status = 429 -> TooManyRequests(response, error)
      [] error.status = 400 ->
            IF TextOk(response.body) THEN BadRequest(response.body.text)
            ELSE Other(DecodeError)
      [] error.status = 500 -> RetryExponentialSome(MAX_RETRIES_500, error)
      [] OTHER -> OtherResponseError(error)

convert_error(tier, response, error) ==
    IF tier = "oauth" THEN OAuthConvertError(response, error)
    ELSE InnerConvertError(response, error)

\* inner_execute on the outcome of with_ratelimits
inner_execute(tier, response) ==
    IF response.status # 0
    THEN IF error_for_status_ref(response)
         THEN convert_error(tier, response, StatusError(response.status))
         ELSE ClassOk
    ELSE IF response.io = "reset"
         THEN RetryExponentialSome(MAX_RETRIES_IO, IoError(response.io))
         ELSE Other(IoError(response.io))

\* 2u64.pow(retries): it overflows from retries = 64 on, where the wrapped
\* value (no overflow checks) is 0; 2^31 and more compare as above the cap.
Pow2U64Overflows(retries) == retries >= U64_BITS

\* mutant: the backoff without its cap of 60 seconds
BackoffSecsUncapped(retries) ==
    IF Pow2U64Overflows(retries) THEN 0 ELSE Pow2(Min(retries, 30))

\* std::cmp::min(60, 2u64.pow(retries)) when the power wraps
BackoffSecs(retries) ==
    IF Pow2U64Overflows(retries) THEN Min(BACKOFF_CAP_SECS, 0)
    ELSE IF retries > 30 THEN BACKOFF_CAP_SECS
    ELSE Min(BACKOFF_CAP_SECS, Pow2(retries))

\* mutant: `>=` for `>`
ExceededMaxRetriesOffByOne(class, retries) ==
    class.has_max /\ retries >= class.max_retries

\* the `retries > max_retries as u32` test of execute
ExceededMaxRetries(class, retries) == class.has_max /\ retries > class.max_retries

----------------------------------------------------------------------------
(* The scenario *)

Headers(remaining, used, reset) ==
    [present |-> TRUE, remaining |-> remaining, used |-> used, reset |-> reset]

\* AuthResponse is decoded from the token endpoint's body, T from an API body
JsonDecodes(body, target) ==
    IF target = "token" THEN body.json \in {"AuthData", "ErrorData"}
    ELSE body.json = "Value"

\* form_auth_header
form_auth_header(token) == <<"Bearer", token>>

InitialToken == "t0"

\* One call, every tier, retries as deep as the u64 power needs
SingleEnv ==
    [depth |-> MaxRetries,
     rlhs |-> {NoRatelimitHeaders, Headers(99, 1, 595)},
     statuses |-> {200, 400, 401, 404, 429, 500, 503},
     retry_afters |-> {<<"5">>, <<"1", "2", "0">>, <<"-", "1">>, <<"0xE9">>},
     ios |-> {"reset", "timeout"},
     api_bodies |-> {Body("Value", "v"), Body("Invalid", "x")},
     tokens |-> {"t1"}]

\* login on an OAuth client, logout on an Authed client
OpsEnv ==
    [depth |-> OpsRetries,
     rlhs |-> {NoRatelimitHeaders, Headers(99, 1, 595)},
     statuses |-> {200, 204, 401, 429, 500},
     retry_afters |-> {<<"5">>},
     ios |-> {"reset", "timeout"},
     api_bodies |-> {Body("Value", "v")},
     tokens |-> {"t1"}]

\* Subreddit::sticky on a client of any tier
StickyEnv == [OpsEnv EXCEPT !.statuses = {200, 400, 401, 404, 500}]

\* Concurrent calls on one Authed client, few retries
ConcEnv ==
    [depth |-> ConcRetries,
     rlhs |-> {Headers(99, 1, 595), Headers(0, 100, 3)},
     statuses |-> {200, 401, 500},
     retry_afters |-> {},
     ios |-> {"timeout"},
     api_bodies |-> {Body("Value", "v")},
     tokens |-> {"t1", "t2"}]

ErrorBody == Body("Value", "error body")

TokenBodies ==
    {Body("AuthData", t) : t \in env.tokens}
        \cup {Body("ErrorData", "invalid_grant"), Body("Invalid", "x")}

\* what the transport may give for the request of call p
ServerResponses(p) ==
    LET target == st[p].request.target
        bodies == IF target = "token" THEN TokenBodies ELSE env.api_bodies
        rlhs == {h \in env.rlhs : h.present \/ nohdr < MaxNoHdr}
        may_retry == st[p].retries < env.depth
    IN {Response(200, "none", FALSE, <<>>, h, b) : h \in rlhs, b \in bodies}
       \cup {Response(s, "none", FALSE, <<>>, h, ErrorBody) :
                s \in {x \in env.statuses \ {200} : x \notin {429, 500} \/ may_retry},
                h \in rlhs}
       \cup {Response(429, "none", TRUE, ra, h, ErrorBody) :
                ra \in {x \in env.retry_afters : may_retry /\ 429 \in env.statuses},
                h \in rlhs}
       \cup {Response(0, io, FALSE, <<>>, NoRatelimitHeaders, NoBody) :
                io \in {x \in env.ios : x # "reset" \/ may_retry}}

----------------------------------------------------------------------------
(* The calls *)

Call(tier, pc) ==
    [pc |-> pc, tier |-> tier, frame |-> "call",
     retries |-> 0, has_retried |-> FALSE,
     request |-> NoRequest, response |-> NoResponse,
     sleep_secs |-> 0, result |-> Pending,
     \* history
     sent |-> 0, slept |-> 0, only |-> "none", last |-> "none",
     answer |-> NoResponse,
     logins |-> 0, n401 |-> 0, rl_seen |-> NoRatelimit,
     login_token |-> "none", first_authorization |-> <<>>,
     stale_authorization |-> <<>>, limited |-> "none"]

Tiers == {"unauth", "oauth", "authed"}

Set(p, s) == st' = [st EXCEPT ![p] = s]

\* no function is being evaluated
NoCalc == [fn |-> "none", pc |-> "done"]

\* a call ends with `result`
Finish(s, result) ==
    [s EXCEPT !.pc = "done", !.result = result, !.response = NoResponse]

\* a new execute frame: `let mut retries: u32 = 0`
NewFrame(s, frame) ==
    [s EXCEPT !.frame = frame, !.retries = 0, !.pc = "build",
              !.response = NoResponse, !.sent = 0, !.slept = 0, !.only = "none",
              !.last = "none", !.answer = NoResponse, !.sleep_secs = 0,
              !.limited = "none"]

\* From<ExecuteError> for RouxError
FromExecuteError(r) ==
    IF r.kind = "AuthorizationRequired" THEN credentials_not_set ELSE r

AuthorizationRequired == Result("AuthorizationRequired", 0, NoError, "")

Continue == Result("Continue", 0, NoError, "")

\* mutant: the header value is captured once, when the call starts
AuthorizationCaptured(s) ==
    IF s.frame = "login" THEN <<"Basic">>
    ELSE IF s.tier = "authed"
    THEN (IF s.has_retried THEN s.first_authorization ELSE access_token)
    ELSE <<>>

\* the `Authorization` header of the request the builder makes
\* (AuthClientInner::request reads the cell; attempt_login uses basic_auth)
Authorization(s) ==
    IF s.frame = "login" THEN <<"Basic">>
    ELSE IF s.tier = "authed" THEN access_token
    ELSE <<>>

\* access_token.read(): blocked while a writer holds the cell
CanReadToken(s) == s.tier = "authed" /\ s.frame = "call" => tok_writer = 0

\* `let request = builder().build()?` of execute and of
\* UnauthedClient::execute_with_retries.  The builder is a pure closure: when
\* it fails, it fails the first time it is used.
Build(p) ==
    /\ st[p].pc = "build"
    /\ CanReadToken(st[p])
    /\ \E built \in {TRUE} \cup {b \in {FALSE} : st[p].retries = 0 /\ ~st[p].has_retried} :
        LET s == st[p]
            request == [target |-> IF s.frame = "login" THEN "token" ELSE "api",
                        authorization |-> Authorization(s)]
        IN IF built
           THEN Set(p, [s EXCEPT !.request = request,
                                 !.first_authorization =
                                     IF s.sent = 0 /\ ~s.has_retried /\ s.frame = "call"
                                     THEN request.authorization ELSE @,
                                 !.pc = IF s.tier = "unauth" THEN "send" ELSE "lock"])
                /\ UNCHANGED tok_writer
           ELSE Set(p, Finish(s, network(BuilderError)))
                /\ tok_writer' = IF tok_writer = p THEN 0 ELSE tok_writer
    /\ UNCHANGED <<ratelimit, rl_holder, nohdr, access_token, env, calc>>

\* mutant: no mutual exclusion on the ratelimiter
MutexNeverHeld == TRUE

\* self.ratelimit.lock()
MutexFree == rl_holder = 0

\* with_ratelimits: `let mut lock = self.ratelimit.lock()`
Lock(p) ==
    /\ st[p].pc = "lock"
    /\ MutexFree
    /\ rl_holder' = p
    /\ Set(p, [st[p] EXCEPT !.pc = "delay"])
    /\ UNCHANGED <<ratelimit, nohdr, access_token, tok_writer, env, calc>>

\* with_ratelimits: `lock.delay()`
Delay(p) ==
    /\ st[p].pc = "delay"
    /\ ratelimit' = delay(ratelimit)
    /\ Set(p, [st[p] EXCEPT !.pc = "send", !.rl_seen = delay(ratelimit),
                            !.limited = "delayed"])
    /\ UNCHANGED <<rl_holder, nohdr, access_token, tok_writer, env, calc>>

\* the cause of a retry, for the history
Cause(class) ==
    IF class.k = "RetryAfter" THEN "RetryAfter"
    ELSE IF class.error.e = "io" THEN "io"
    ELSE IF class.error.status = 500 THEN "500"
    ELSE "429"

\* history: the first capped failure after Retry-After retries only
ThenCause(class) == IF Cause(class) = "io" THEN "RetryAfter, io" ELSE "RetryAfter, 500"

\* history: the answer to the last attempt, without ratelimit headers and body
Answer(response) ==
    [response EXCEPT !.rlh = NoRatelimitHeaders, !.body = NoBody]

\* mutant: a failure of the transport is counted by update as well
SendThenUpdate(p) ==
    /\ st[p].pc = "send"
    /\ \E response \in ServerResponses(p) :
        LET s == [st[p] EXCEPT !.response = response, !.sent = @ + 1,
                               !.answer = Answer(response)]
        IN /\ IF s.tier = "unauth"
              THEN /\ Set(p, IF response.status = 0
                             THEN Finish(s, network(IoError(response.io)))
                             ELSE [s EXCEPT !.pc = "handler"])
                   /\ UNCHANGED rl_holder
              ELSE IF response.status = 0
              THEN /\ Set(p, [s EXCEPT !.pc = "classify", !.rl_seen = NoRatelimit])
                   /\ rl_holder' = IF rl_holder = p THEN 0 ELSE rl_holder
              ELSE /\ Set(p, [s EXCEPT !.pc = "update"])
                   /\ UNCHANGED rl_holder
           /\ nohdr' = IF response.status # 0 /\ ~response.rlh.present /\ s.tier # "unauth"
                       THEN nohdr + 1 ELSE nohdr
           /\ ratelimit' = IF response.status = 0 /\ s.tier # "unauth"
                           THEN update(ratelimit, response.rlh) ELSE ratelimit
    /\ UNCHANGED <<access_token, tok_writer, env, calc>>

\* `self.inner.execute(request)`: the transport answers or fails.  A failure
\* leaves with_ratelimits through `?`, which drops the guard without update.
Send(p) ==
    /\ st[p].pc = "send"
    /\ \E response \in ServerResponses(p) :
        LET s == [st[p] EXCEPT !.response = response, !.sent = @ + 1,
                               !.answer = Answer(response)]
        IN /\ IF s.tier = "unauth"
              THEN /\ Set(p, IF response.status = 0
                             THEN Finish(s, network(IoError(response.io)))
                             ELSE [s EXCEPT !.pc = "handler"])
                   /\ UNCHANGED rl_holder
              ELSE IF response.status = 0
              THEN /\ Set(p, [s EXCEPT !.pc = "classify", !.rl_seen = NoRatelimit])
                   /\ rl_holder' = IF rl_holder = p THEN 0 ELSE rl_holder
              ELSE /\ Set(p, [s EXCEPT !.pc = "update"])
                   /\ UNCHANGED rl_holder
           /\ nohdr' = IF response.status # 0 /\ ~response.rlh.present /\ s.tier # "unauth"
                       THEN nohdr + 1 ELSE nohdr
    /\ UNCHANGED <<ratelimit, access_token, tok_writer, env, calc>>

\* with_ratelimits: `lock.update(response.headers())`, then the guard drops
UpdateRatelimit(p) ==
    /\ st[p].pc = "update"
    /\ ratelimit' = update(ratelimit, st[p].response.rlh)
    /\ rl_holder' = IF rl_holder = p THEN 0 ELSE rl_holder
    /\ Set(p, [st[p] EXCEPT !.pc = "classify", !.rl_seen = NoRatelimit,
                            !.limited = "updated",
                            !.response = [@ EXCEPT !.rlh = NoRatelimitHeaders]])
    /\ UNCHANGED <<nohdr, access_token, tok_writer, env, calc>>

\* One turn of the loop of execute on the classified attempt: the value
\* execute returns, or Continue to sleep and try again.  `retries` is the
\* counter after `retries += 1`.
ExecuteTurn(class, response, retries, overflow_checks) ==
    CASE class.k = "Ok" -> OkResponse(response)
      [] class.k = "RetryAfter" -> Continue
      [] class.k = "RetryExponential" ->
            IF ExceededMaxRetries(class, retries) THEN network(class.error)
            ELSE IF Pow2U64Overflows(retries) /\ overflow_checks THEN Panic
            ELSE Continue
      [] class.k = "BadRequest" -> reddit_error(class.text)
      [] class.k = "OtherResponseError" -> full_network(response, class.error)
      [] class.k = "Other" -> network(class.error)
      [] class.k = "Unauthorized" -> AuthorizationRequired

\* mutant: Retry-After is ignored
SleepSecsBackoffOnly(class, retries) == BackoffSecs(retries)

\* the duration execute sleeps before the next attempt
SleepSecs(class, retries) ==
    IF class.k = "RetryAfter" THEN class.secs ELSE BackoffSecs(retries)

\* mutant: has_retried is not consulted
AuthedTurnAlwaysRelogin(s, ret) ==
    CASE ret.kind = "Ok" -> [s EXCEPT !.pc = "handler"]
      [] ret.kind = "AuthorizationRequired" ->
            [s EXCEPT !.has_retried = TRUE, !.pc = "relogin", !.response = NoResponse]
      [] OTHER -> Finish(s, FromExecuteError(ret))

\* AuthedClient::execute_with_retries on what base.execute returned
AuthedTurn(s, ret) ==
    CASE ret.kind = "Ok" -> [s EXCEPT !.pc = "handler"]
      [] ret.kind = "AuthorizationRequired" ->
            IF s.has_retried THEN Finish(s, credentials_not_set)
            ELSE [s EXCEPT !.has_retried = TRUE, !.pc = "relogin",
                           !.response = NoResponse]
      [] OTHER -> Finish(s, FromExecuteError(ret))

\* attempt_login on what its execute returned: `?` hands an error to
\* execute_with_retries, whose own `?` ends the call with it
LoginTurn(s, ret) ==
    IF ret.kind = "Ok" THEN [s EXCEPT !.pc = "login_parse"]
    ELSE Finish(s, FromExecuteError(ret))

\* OAuthClient::login on what its execute returned: `?` ends login with the
\* error
OAuthLoginTurn(s, ret) ==
    IF ret.kind = "Ok" THEN [s EXCEPT !.pc = "oauth_login"] ELSE Finish(s, ret)

\* inner_execute's outcome in the loop of execute, and what the caller of
\* execute does with a returned value
Classify(p) ==
    /\ st[p].pc = "classify"
    /\ \E overflow_checks \in BOOLEAN :
        LET s0 == st[p]
            class == inner_execute(s0.tier, s0.response)
            retrying == class.k \in {"RetryAfter", "RetryExponential"}
            retries == IF retrying THEN s0.retries + 1 ELSE s0.retries
            ret == ExecuteTurn(class, s0.response, retries, overflow_checks)
            s == [s0 EXCEPT !.retries = retries,
                            !.only = IF ~retrying THEN @
                                     ELSE IF @ \in {"none", Cause(class)}
                                     THEN Cause(class)
                                     ELSE IF @ = "RetryAfter" /\ class.has_max
                                     THEN ThenCause(class) ELSE "mixed",
                            !.last = IF retrying THEN Cause(class) ELSE class.k,
                            !.n401 = IF class.k = "Unauthorized" /\ s0.frame = "call"
                                     THEN @ + 1 ELSE @,
                            !.stale_authorization =
                                IF class.k = "Unauthorized" /\ s0.frame = "call"
                                THEN s0.request.authorization ELSE @]
            next == CASE ret.kind = "Continue" ->
                            [s EXCEPT !.pc = "sleep", !.response = NoResponse,
                                      !.sleep_secs = SleepSecs(class, retries)]
                      [] ret.kind = "Panic" -> Finish(s, Panic)
                      [] s.tier = "oauth" /\ s.frame = "call" -> Finish(s, ret)
                      [] s.tier = "oauth" -> OAuthLoginTurn(s, ret)
                      [] s.frame = "login" -> LoginTurn(s, ret)
                      [] OTHER -> AuthedTurn(s, ret)
        IN /\ Set(p, next)
           /\ tok_writer' = IF tok_writer = p /\ next.pc = "done" THEN 0 ELSE tok_writer
    /\ UNCHANGED <<ratelimit, rl_holder, nohdr, access_token, env, calc>>

\* `sleep(duration)` of execute, then the loop builds the request again
Sleep(p) ==
    /\ st[p].pc = "sleep"
    /\ Set(p, [st[p] EXCEPT !.pc = "build", !.slept = @ + 1,
                            !.sleep_secs = 0, !.last = "none",
                            !.answer = NoResponse, !.limited = "none"])
    /\ UNCHANGED <<ratelimit, rl_holder, nohdr, access_token, tok_writer, env, calc>>

\* mutant: the write lock of the token cell excludes nobody
TokenCellNeverLocked == TRUE

\* access_token.write(): waits for the cell to be free
CanWriteToken == tok_writer = 0

\* execute_with_retries: `let mut write = self.0.access_token.write()`, then
\* attempt_login starts its own execute
Relogin(p) ==
    /\ st[p].pc = "relogin"
    /\ CanWriteToken
    /\ tok_writer' = p
    /\ Set(p, [NewFrame(st[p], "login") EXCEPT !.logins = @ + 1])
    /\ UNCHANGED <<ratelimit, rl_holder, nohdr, access_token, env, calc>>

\* attempt_login: `response.json::<AuthResponse>()`, and on a token
\* `*write = form_auth_header(&token)`; the guard drops and the loop goes on
LoginParse(p) ==
    /\ st[p].pc = "login_parse"
    /\ LET s == st[p]
           body == s.response.body
       IN IF ~JsonDecodes(body, "token")
          THEN Set(p, Finish(s, network(DecodeError))) /\ UNCHANGED access_token
          ELSE IF body.json = "ErrorData"
          THEN Set(p, Finish([s EXCEPT !.last = "ErrorData"], auth(body.text)))
               /\ UNCHANGED access_token
          ELSE /\ access_token' = form_auth_header(body.text)
               /\ Set(p, [NewFrame(s, "call") EXCEPT !.login_token = body.text])
    /\ tok_writer' = IF tok_writer = p THEN 0 ELSE tok_writer
    /\ UNCHANGED <<ratelimit, rl_holder, nohdr, env, calc>>

\* a failed handler: `handler(response).await?` gives a reqwest::Error, which
\* From<reqwest::Error> for RouxError turns into Network
HandlerError == network(DecodeError)

\* UnauthedClient::execute_with_retries: `Ok(handler(response).await?)`
Handler(p) ==
    /\ st[p].pc = "handler"
    /\ LET s == st[p]
       IN Set(p, IF JsonDecodes(s.response.body, "api")
                 THEN Finish([s EXCEPT !.last = "HandlerOk"], OkResponse(s.response))
                 ELSE Finish([s EXCEPT !.last = "HandlerFailed"], HandlerError))
    /\ UNCHANGED <<ratelimit, rl_holder, nohdr, access_token, tok_writer, env, calc>>

\* OAuthClient::login after execute: the token endpoint's answer is decoded
\* only when its status is 200; AuthData makes the Authed client, whose cell
\* holds form_auth_header of the token
OAuthLogin(p) ==
    /\ st[p].pc = "oauth_login"
    /\ LET s == st[p]
           body == s.response.body
       IN IF s.response.status # 200
          THEN Set(p, Finish(s, status(s.response))) /\ UNCHANGED access_token
          ELSE IF ~JsonDecodes(body, "token")
          THEN Set(p, Finish(s, network(DecodeError))) /\ UNCHANGED access_token
          ELSE IF body.json = "ErrorData"
          THEN Set(p, Finish([s EXCEPT !.last = "ErrorData"], auth(body.text)))
               /\ UNCHANGED access_token
          ELSE /\ access_token' = form_auth_header(body.text)
               /\ Set(p, Finish([s EXCEPT !.login_token = body.text,
                                          !.last = "AuthData"],
                                OkResponse(s.response)))
    /\ UNCHANGED <<ratelimit, rl_holder, nohdr, tok_writer, env, calc>>

StickyNone == Result("Ok", 0, NoError, "None")

StickySome == Result("Ok", 0, NoError, "Some")

\* UnauthedClient::get: the request is sent once; a status that is an error
\* panics with the body, or returns the error of reading the body
UnauthedGet(p) ==
    /\ st[p].pc = "get"
    /\ \E response \in ServerResponses(p) :
        LET s == [st[p] EXCEPT !.request = [target |-> "api", authorization |-> <<>>],
                              !.sent = @ + 1, !.answer = Answer(response)]
        IN Set(p, Finish(s, IF response.status = 0 THEN network(IoError(response.io))
                            ELSE IF error_for_status_ref(response)
                            THEN (IF TextOk(response.body) THEN Panic
                                  ELSE network(DecodeError))
                            ELSE OkResponse(response)))
    /\ UNCHANGED <<ratelimit, rl_holder, nohdr, access_token, tok_writer, env, calc>>

\* Subreddit::sticky on what `self.client.get(url)` returned: FullNetwork with
\* status 404 is Ok(None), any other error is returned, a response is decoded
Sticky(p) ==
    /\ st[p].pc = "done"
    /\ \E decodes \in BOOLEAN :
        LET got == st[p].result
            result == CASE got.kind = "Ok" ->
                              IF decodes THEN StickySome ELSE network(DecodeError)
                        [] got.kind = "FullNetwork" /\ got.status = 404 -> StickyNone
                        [] OTHER -> got
        IN Set(p, [st[p] EXCEPT !.pc = "returned", !.result = result])
    /\ UNCHANGED <<ratelimit, rl_holder, nohdr, access_token, tok_writer, env, calc>>

\* what the transport may give for the request of logout
LogoutResponses ==
    {Response(s, "none", FALSE, <<>>, h, NoBody) : s \in env.statuses, h \in env.rlhs}
        \cup {Response(0, io, FALSE, <<>>, NoRatelimitHeaders, NoBody) : io \in env.ios}

\* AuthedClient::logout: the revoke request is made with make_req and sent
\* with `.send()`; 204 is Ok(()), any other status is RouxError::status
Logout(p) ==
    /\ st[p].pc = "logout"
    /\ tok_writer = 0
    /\ \E response \in LogoutResponses :
        LET s == [st[p] EXCEPT !.request =
                     [target |-> "revoke",
                      authorization |-> access_token \o <<"Basic">>],
                  !.sent = @ + 1, !.answer = Answer(response),
                  !.last = "Logout"]
        IN Set(p, Finish(s, IF response.status = 0 THEN network(IoError(response.io))
                            ELSE IF response.status = 204 THEN OkUnit
                            ELSE status(response)))
    /\ UNCHANGED <<ratelimit, rl_holder, nohdr, access_token, tok_writer, env, calc>>

----------------------------------------------------------------------------
(* Functions of the library, evaluated one at a time on the input in calc. *)
(* A string is a sequence of pieces; "/", "?", "=", "&" and ".json" are    *)
(* pieces of their own, so that a prefix or a first character can be read.  *)

\* all sequences over S of length at most n
SeqsUpTo(S, n) == UNION {[1..k -> S] : k \in 0..n}

StartsWith(s, prefix) ==
    Len(s) >= Len(prefix) /\ SubSeq(s, 1, Len(prefix)) = prefix

\* the evaluation ends with value out
Return(out) ==
    /\ calc.pc = "ready"
    /\ calc' = [calc EXCEPT !.pc = "done", !.out = out]
    /\ UNCHANGED <<st, ratelimit, rl_holder, nohdr, access_token, tok_writer, env>>

WWW_REDDIT == <<"https:", "/", "/", "www.reddit.com">>

OAUTH_REDDIT == <<"https:", "/", "/", "oauth.reddit.com">>

\* EndpointBuilder::new
EndpointBuilderNew(path) == [path |-> path, query |-> <<>>, with_dot_json |-> TRUE]

\* EndpointBuilder::join
join(self, other) ==
    [self EXCEPT !.path = @ \o other.path, !.query = @ \o other.query]

\* the loop of build over the query pairs
RECURSIVE PushQuery(_, _)
PushQuery(joined, query) ==
    IF query = <<>> THEN joined
    ELSE PushQuery(joined \o <<Head(query)[1], "=", Head(query)[2], "&">>, Tail(query))

\* EndpointBuilder::build
build(self, base_url) ==
    LET dot_json == IF self.with_dot_json THEN <<".json">> ELSE <<>>
        joined == IF Len(self.path) = 0 \/ Head(self.path) = "/"
                  THEN base_url \o self.path \o <<"/">> \o dot_json
                  ELSE base_url \o <<"/">> \o self.path \o <<"/">> \o dot_json
    IN PushQuery(IF Len(self.query) > 0 THEN joined \o <<"?">> ELSE joined, self.query)

\* ClientInner::new: the base URL of the client
base_url(config) == IF config.password THEN OAUTH_REDDIT ELSE WWW_REDDIT

\* ClientInner::request: the URL of the request
request(config, endpoint) == build(endpoint, base_url(config))

\* the endpoint of attempt_login and of OAuthClient::login
AccessTokenEndpoint ==
    [EndpointBuilderNew(<<"api", "/", "v1", "/", "access_token">>)
        EXCEPT !.with_dot_json = FALSE]

\* the endpoint of logout
RevokeTokenEndpoint ==
    EndpointBuilderNew(WWW_REDDIT \o <<"/", "api", "/", "v1", "/", "revoke_token">>)

NoUrl == <<>>

\* the URL of the token request of login and re-login; without a username
\* and a password no request is made
LoginUrl(config) ==
    IF config.username /\ config.password THEN request(config, AccessTokenEndpoint)
    ELSE NoUrl

\* the URL of the request of logout
LogoutUrl(config) == request(config, RevokeTokenEndpoint)

Configs == [username : BOOLEAN, password : BOOLEAN]

PathPieces == {"/", "r", "about"}

QueryPairs == {<<"limit", "5">>, <<"after", "t3_x">>}

Endpoints ==
    [path : SeqsUpTo(PathPieces, MaxPathLen),
     query : SeqsUpTo(QueryPairs, MaxQueryLen),
     with_dot_json : BOOLEAN]

\* endpoints as callers join them: a short path, at most one pair
JoinEndpoints ==
    {e \in Endpoints : Len(e.path) <= 1 /\ Len(e.query) <= 1}

EndpointInputs ==
    {[fn |-> "build", pc |-> "ready", self |-> e, base_url |-> b, out |-> <<>>] :
        e \in Endpoints, b \in {WWW_REDDIT, OAUTH_REDDIT}}
    \cup {[fn |-> "join", pc |-> "ready", self |-> e, other |-> o, out |-> <<>>] :
        e \in JoinEndpoints, o \in JoinEndpoints}
    \cup {[fn |-> f, pc |-> "ready", config |-> c, out |-> <<>>] :
        f \in {"login_url", "logout_url"}, c \in Configs}

EndpointBuild ==
    /\ calc.fn = "build"
    /\ Return(build(calc.self, calc.base_url))

EndpointJoin ==
    /\ calc.fn = "join"
    /\ Return(join(calc.self, calc.other))

LoginRequest ==
    /\ calc.fn = "login_url"
    /\ Return(LoginUrl(calc.config))

LogoutRequest ==
    /\ calc.fn = "logout_url"
    /\ Return(LogoutUrl(calc.config))

----------------------------------------------------------------------------
(* ThingFullname (src/src/api/thing_fullname/mod.rs).  A str is the        *)
(* sequence of its UTF-8 bytes; an ASCII byte is written as its character.  *)

\* the characters of the inputs; "e'" is U+00E9, two bytes in UTF-8
IdChars == {"t", "1", "_", "a", "A", "e'"}

LinkChars == {"/", "r", "x"}

Utf8(c) == IF c = "e'" THEN <<"0xC3", "0xA9">> ELSE <<c>>

RECURSIVE Str(_)
Str(chars) == IF chars = <<>> THEN <<>> ELSE Utf8(Head(chars)) \o Str(Tail(chars))

\* the index where pat first occurs in s, 0 when it does not
Find(s, pat) ==
    LET at == {i \in 1..(Len(s) - Len(pat) + 1) : SubSeq(s, i, i + Len(pat) - 1) = pat}
    IN IF at = {} THEN 0 ELSE CHOOSE i \in at : \A j \in at : i <= j

\* str::split_once
split_once(s, pat) ==
    LET i == Find(s, pat)
    IN IF i = 0 THEN [some |-> FALSE, before |-> <<>>, after |-> <<>>]
       ELSE [some |-> TRUE, before |-> SubSeq(s, 1, i - 1),
             after |-> SubSeq(s, i + Len(pat), Len(s))]

SPLIT_INDEX == 2

\* mutant: the length of the kind is not checked
validateAnyKindLength(thing_id) ==
    LET parts == split_once(thing_id, <<"_">>)
    IN parts.some /\ StartsWith(parts.before, <<"t">>)

\* ThingFullname::validate: TRUE for Ok(())
validate(thing_id) ==
    LET parts == split_once(thing_id, <<"_">>)
    IN /\ parts.some
       /\ ~(Len(parts.before) # 2 \/ ~StartsWith(parts.before, <<"t">>))

Ok(v) == [ok |-> TRUE, v |-> v]

Err == [ok |-> FALSE, v |-> <<>>]

\* TryFrom<&str> and TryFrom<String> for ThingFullname
try_from(thing_id) == IF validate(thing_id) THEN Ok(thing_id) ELSE Err

\* ThingFullname::split: get_unchecked(..SPLIT_INDEX), get_unchecked(SPLIT_INDEX + 1..)
split(self) ==
    <<SubSeq(self, 1, SPLIT_INDEX), SubSeq(self, SPLIT_INDEX + 2, Len(self))>>

kind(self) == split(self)[1]

id(self) == split(self)[2]

full(self) == self

from_comment_id(comment_id) == <<"t", "1", "_">> \o comment_id

from_submission_id(submission_id) == <<"t", "3", "_">> \o submission_id

\* ThingFullname::from_submission_link
from_submission_link(url) ==
    LET a == split_once(url, <<"/", "r", "/">>)
        b == split_once(a.after, <<"/">>)
        c == split_once(b.after, <<"/">>)
        d == split_once(c.after, <<"/">>)
        thing_id == IF d.some THEN d.before ELSE c.after
    IN IF ~a.some \/ ~b.some \/ ~c.some THEN Err
       ELSE try_from(<<"t", "3", "_">> \o thing_id)

\* a JSON value
Json(type, v) == [type |-> type, v |-> v]

\* Deserialize for ThingFullname: String::deserialize, then try_from
deserialize_fullname(json) ==
    IF json.type = "string" THEN try_from(json.v) ELSE Err

IdStrings == {Str(cs) : cs \in SeqsUpTo(IdChars, MaxIdLen)}

LinkStrings == {Str(cs) : cs \in SeqsUpTo(LinkChars, MaxLinkLen)}

FullnameInputs ==
    {[fn |-> f, pc |-> "ready", arg |-> x, out |-> Err] :
        f \in {"try_from", "from_comment_id", "from_submission_id"}, x \in IdStrings}
    \cup {[fn |-> "from_submission_link", pc |-> "ready", arg |-> x, out |-> Err] :
        x \in LinkStrings}
    \cup {[fn |-> "deserialize", pc |-> "ready", arg |-> Json("string", x), out |-> Err] :
        x \in IdStrings}
    \cup {[fn |-> "deserialize", pc |-> "ready", arg |-> Json(t, <<>>), out |-> Err] :
        t \in {"null", "bool", "number", "array", "object"}}

TryFrom ==
    /\ calc.fn = "try_from"
    /\ Return(try_from(calc.arg))

DeserializeFullname ==
    /\ calc.fn = "deserialize"
    /\ Return(deserialize_fullname(calc.arg))

FromCommentId ==
    /\ calc.fn = "from_comment_id"
    /\ Return(Ok(from_comment_id(calc.arg)))

FromSubmissionId ==
    /\ calc.fn = "from_submission_id"
    /\ Return(Ok(from_submission_id(calc.arg)))

FromSubmissionLink ==
    /\ calc.fn = "from_submission_link"
    /\ Return(from_submission_link(calc.arg))

----------------------------------------------------------------------------
(* JSON numbers as serde_json reads and writes them.  A number literal is  *)
(* its sign, the magnitude of its integer part and its fraction digits,     *)
(* frac = "" when it is written as an integer.                              *)

Mags == {"0", "1", "2^31", "2^64"}

NumLit(neg, mag, frac) == [neg |-> neg, mag |-> mag, frac |-> frac]

NumLits == {NumLit(n, m, f) : n \in BOOLEAN, m \in Mags, f \in {"", "0", "5"}}

\* an f64: -0.0 and 0.0 compare equal, a fraction of 0 is no fraction
F64(neg, mag, frac) ==
    [neg |-> neg /\ ~(mag = "0" /\ frac \in {"", "0"}), mag |-> mag,
     frac |-> IF frac = "0" THEN "" ELSE frac]

\* the number the JSON parser hands to a visitor: a literal with a fraction,
\* one above u64::MAX, and -0 are F64; other literals are U64, or I64 when
\* negative
ParserNumber(lit) ==
    IF lit.frac # "" \/ lit.mag = "2^64" \/ (lit.neg /\ lit.mag = "0")
    THEN [t |-> "F64", neg |-> lit.neg, mag |-> lit.mag, frac |-> lit.frac]
    ELSE [t |-> IF lit.neg THEN "I64" ELSE "U64", neg |-> lit.neg, mag |-> lit.mag,
          frac |-> ""]

\* serialize_f64: a float is written with a fraction
serialize_f64(v) == NumLit(v.neg, v.mag, IF v.frac = "" THEN "0" ELSE v.frac)

\* a JSON value: its shape and, by shape, its boolean b, its number literal n,
\* its string s or its elements a
JValue(type, b, n, s, a) == [type |-> type, b |-> b, n |-> n, s |-> s, a |-> a]

JShape(type) == JValue(type, FALSE, NumLit(FALSE, "0", ""), "", <<>>)

JNull == JShape("null")

JBool(b) == [JShape("bool") EXCEPT !.b = b]

JNumber(lit) == [JShape("number") EXCEPT !.n = lit]

JString(str) == [JShape("string") EXCEPT !.s = str]

JArray(elems) == [JShape("array") EXCEPT !.a = elems]

JObject == JShape("object")

None == <<>>

Some(x) == <<x>>

----------------------------------------------------------------------------
(* Edited (src/src/api/comment/common.rs) *)

EditedAt(v) == [tag |-> "EditedAt", at |-> v]

NotEdited == [tag |-> "NotEdited", at |-> F64(FALSE, "0", "")]

\* EditedVistor::visit_bool
visit_bool(v) == IF v = FALSE THEN Ok(NotEdited) ELSE Err

\* EditedVistor::visit_f64
visit_f64(v) == Ok(EditedAt(v))

\* Deserialize for Edited: deserialize_any with a visitor that has visit_bool
\* and visit_f64 only; every other visit_* is the default, an invalid_type error
deserialize_edited(json) ==
    CASE json.type = "bool" -> visit_bool(json.b)
      [] json.type = "number" ->
            LET n == ParserNumber(json.n)
            IN IF n.t = "F64" THEN visit_f64(F64(n.neg, n.mag, n.frac)) ELSE Err
      [] OTHER -> Err

----------------------------------------------------------------------------
(* Submission moderation data (src/src/api/submission/moddata.rs) *)

BoolFields == {"approved", "ignore_reports", "removed", "spam"}

OptF64Fields == {"approved_at_utc", "banned_at_utc"}

OptStringFields ==
    {"approved_by", "ban_note", "banned_by", "mod_note", "mod_reason_by",
     "mod_reason_title", "removal_reason", "removed_by", "removed_by_category"}

Fields ==
    BoolFields \cup OptF64Fields \cup OptStringFields
    \cup {"mod_reports", "num_reports", "user_reports"}

\* the value of a key of a JSON object, None when the key is absent
Get(map, key) == IF key \in DOMAIN map THEN Some(map[key]) ELSE None

\* serde_json::Map::remove
Remove(map, key) == [k \in (DOMAIN map) \ {key} |-> map[k]]

deserialize_bool(json) == IF json.type = "bool" THEN Ok(json.b) ELSE Err

deserialize_string(json) == IF json.type = "string" THEN Ok(json.s) ELSE Err

deserialize_f64(json) ==
    IF json.type = "number"
    THEN LET n == ParserNumber(json.n) IN Ok(F64(n.neg, n.mag, n.frac))
    ELSE Err

\* an i32 takes an integer within its range, and no float
deserialize_i32(json) ==
    IF json.type # "number" THEN Err
    ELSE LET n == ParserNumber(json.n)
         IN IF /\ n.t # "F64"
               /\ \/ n.mag \in {"0", "1"}
                  \/ n.neg /\ n.mag = "2^31"
            THEN Ok([neg |-> n.neg, mag |-> n.mag])
            ELSE Err

\* Option<T>: null is None
deserialize_option(de(_), json) ==
    IF json.type = "null" THEN Ok(None)
    ELSE LET r == de(json) IN IF r.ok THEN Ok(Some(r.v)) ELSE Err

\* Vec<T>, and a sequence of a fixed length: every element decodes
deserialize_seq(de(_), json) ==
    IF json.type # "array" THEN Err
    ELSE LET r == [i \in 1..Len(json.a) |-> de(json.a[i])]
         IN IF \A i \in 1..Len(r) : r[i].ok THEN Ok([i \in 1..Len(r) |-> r[i].v])
            ELSE Err

\* SubmissionModeratorReport([String; 2])
deserialize_moderator_report(json) ==
    IF json.type = "array" /\ Len(json.a) = 2
    THEN deserialize_seq(deserialize_string, json)
    ELSE Err

\* Deserialize for SubmissionUserReport: the visitor takes four elements, and
\* the array must hold no more
deserialize_user_report(json) ==
    IF json.type # "array" \/ Len(json.a) # 4 THEN Err
    ELSE LET rule == deserialize_string(json.a[1])
             count == deserialize_i32(json.a[2])
             unknown1 == deserialize_bool(json.a[3])
             unknown2 == deserialize_bool(json.a[4])
         IN IF rule.ok /\ count.ok /\ unknown1.ok /\ unknown2.ok
            THEN Ok([rule |-> rule.v, count |-> count.v,
                     unknown1 |-> unknown1.v, unknown2 |-> unknown2.v])
            ELSE Err

serialize_i32(v) == JNumber(NumLit(v.neg, v.mag, ""))

\* mutant: the count is written before the rule
serialize_user_report_count_first(self) ==
    JArray(<<serialize_i32(self.count), JString(self.rule), JBool(self.unknown1),
             JBool(self.unknown2)>>)

\* Serialize for SubmissionUserReport
serialize_user_report(self) ==
    JArray(<<JString(self.rule), serialize_i32(self.count), JBool(self.unknown1),
             JBool(self.unknown2)>>)

serialize_moderator_report(self) == JArray(<<JString(self[1]), JString(self[2])>>)

\* derive(Deserialize) for SubmissionModerationData, one field: a missing
\* Option field is None, any other missing field is an error
deserialize_field(key, map) ==
    LET entry == Get(map, key)
    IN IF entry = None
       THEN IF key \in OptF64Fields \cup OptStringFields THEN Ok(None) ELSE Err
       ELSE CASE key \in BoolFields -> deserialize_bool(entry[1])
              [] key \in OptF64Fields -> deserialize_option(deserialize_f64, entry[1])
              [] key \in OptStringFields -> deserialize_option(deserialize_string, entry[1])
              [] key = "num_reports" -> deserialize_i32(entry[1])
              [] key = "mod_reports" -> deserialize_seq(deserialize_moderator_report, entry[1])
              [] key = "user_reports" -> deserialize_seq(deserialize_user_report, entry[1])

\* derive(Deserialize) for SubmissionModerationData; unknown keys are ignored
deserialize_moderation_data(map) ==
    LET r == [key \in Fields |-> deserialize_field(key, map)]
    IN IF \A key \in Fields : r[key].ok THEN Ok([key \in Fields |-> r[key].v]) ELSE Err

\* derive(Serialize) for SubmissionModerationData, the value of one field
serialize_field(key, v) ==
    CASE key \in BoolFields -> JBool(v)
      [] key \in OptF64Fields -> IF v = None THEN JNull ELSE JNumber(serialize_f64(v[1]))
      [] key \in OptStringFields -> IF v = None THEN JNull ELSE JString(v[1])
      [] key = "num_reports" -> serialize_i32(v)
      [] key = "mod_reports" -> JArray([i \in 1..Len(v) |-> serialize_moderator_report(v[i])])
      [] key = "user_reports" -> JArray([i \in 1..Len(v) |-> serialize_user_report(v[i])])

\* moddata::deserialize
deserialize(map) ==
    LET can_mod_post == Get(map, "can_mod_post")
        rest == Remove(map, "can_mod_post")
    IN CASE can_mod_post = None -> Ok(None)
         [] can_mod_post = Some(JBool(FALSE)) -> Ok(None)
         [] can_mod_post = Some(JBool(TRUE)) ->
                LET data == deserialize_moderation_data(rest)
                IN IF data.ok THEN Ok(Some(data.v)) ELSE Err
         [] OTHER -> Err

\* util::ser_map::SerMap: the fields of the record are written as entries of
\* the map that is already open, which is then closed
SerMap(map, data) ==
    [key \in (DOMAIN map) \cup Fields |->
        IF key \in Fields THEN serialize_field(key, data[key]) ELSE map[key]]

\* moddata::serialize
serialize(value) ==
    IF value # None
    THEN SerMap([key \in {"can_mod_post"} |-> JBool(TRUE)], value[1])
    ELSE [key \in {"can_mod_post"} |-> JBool(FALSE)]

\* JSON values put in place of a value of the sample object
JsonSamples ==
    {JNull, JBool(TRUE), JBool(FALSE), JString("s"), JObject,
     JNumber(NumLit(FALSE, "1", "")), JNumber(NumLit(FALSE, "1", "5")),
     JNumber(NumLit(TRUE, "2^31", "")), JNumber(NumLit(FALSE, "2^31", "")),
     JArray(<<>>), JArray(<<JArray(<<JString("m"), JString("r")>>)>>),
     JArray(<<JArray(<<JString("r"), JNumber(NumLit(FALSE, "1", "")), JBool(FALSE),
                       JBool(TRUE)>>)>>),
     JArray(<<JArray(<<JString("r"), JNumber(NumLit(FALSE, "1", "")), JBool(FALSE),
                       JBool(TRUE), JNull>>)>>)}

Absent == JShape("absent")

\* a submission object of a moderator, without can_mod_post; "title" is one of
\* the keys of the submission that the moderation record does not have
SampleObject ==
    [key \in Fields \cup {"title"} |->
        CASE key \in {"approved", "spam"} -> JBool(FALSE)
          [] key \in {"ignore_reports", "removed"} -> JBool(TRUE)
          [] key = "approved_at_utc" -> JNull
          [] key = "banned_at_utc" -> JNumber(NumLit(FALSE, "1", ""))
          [] key \in {"ban_note", "banned_by", "removed_by"} -> JString("s")
          [] key \in OptStringFields \ {"ban_note", "banned_by", "removed_by"} -> JNull
          [] key = "num_reports" -> JNumber(NumLit(FALSE, "1", ""))
          [] key = "mod_reports" -> JArray(<<JArray(<<JString("m"), JString("r")>>)>>)
          [] key = "user_reports" ->
                JArray(<<JArray(<<JString("r"), JNumber(NumLit(FALSE, "1", "")),
                                  JBool(FALSE), JBool(TRUE)>>)>>)
          [] key = "title" -> JString("s")]

RECURSIVE KeySets(_, _)
KeySets(keys, n) ==
    IF n = 0 THEN {{}}
    ELSE LET smaller == KeySets(keys, n - 1)
         IN smaller \cup {S \cup {k} : S \in smaller, k \in keys}

\* the object with the keys of change set to other values, or taken out
Changed(map, change) ==
    [key \in ((DOMAIN map) \cup DOMAIN change)
              \ {k \in DOMAIN change : change[k] = Absent} |->
        IF key \in DOMAIN change THEN change[key] ELSE map[key]]

Changes(keys, n) ==
    UNION {[S -> JsonSamples \cup {Absent}] : S \in KeySets(keys, n)}

SubmissionObjects ==
    {Changed(Changed(SampleObject, change), can_mod_post) :
        change \in Changes(DOMAIN SampleObject, MaxChanged),
        can_mod_post \in Changes({"can_mod_post"}, 1)}

SerdeInputs ==
    {[fn |-> "moddata", pc |-> "ready", arg |-> map, out |-> Err,
      json |-> <<>>, again |-> Err] : map \in SubmissionObjects}

EditedInputs ==
    {[fn |-> "edited", pc |-> "ready", arg |-> json, out |-> Err] :
        json \in JsonSamples \cup {JNumber(lit) : lit \in NumLits}}

EditedDeserialize ==
    /\ calc.fn = "edited"
    /\ Return(deserialize_edited(calc.arg))

ModdataDeserialize ==
    /\ calc.fn = "moddata"
    /\ Return(deserialize(calc.arg))

ModdataSerialize ==
    /\ calc.fn = "moddata" /\ calc.pc = "done" /\ calc.out.ok
    /\ calc' = [calc EXCEPT !.pc = "encoded", !.json = serialize(calc.out.v)]
    /\ UNCHANGED <<st, ratelimit, rl_holder, nohdr, access_token, tok_writer, env>>

ModdataDeserializeAgain ==
    /\ calc.fn = "moddata" /\ calc.pc = "encoded"
    /\ calc' = [calc EXCEPT !.pc = "decoded_again", !.again = deserialize(calc.json)]
    /\ UNCHANGED <<st, ratelimit, rl_holder, nohdr, access_token, tok_writer, env>>

----------------------------------------------------------------------------
(* Replies of an article comment (src/src/api/comment/replies.rs,          *)
(* article.rs, src/src/api/response/mod.rs).  A JSON object is its entries, *)
(* each a key with its value.                                               *)

Entry(key, value) == [JShape("entry") EXCEPT !.s = key, !.a = <<value>>]

JObjectOf(entries) == [JShape("object") EXCEPT !.a = entries]

HasKey(obj, key) == \E i \in 1..Len(obj.a) : obj.a[i].s = key

Field(obj, key) == obj.a[CHOOSE i \in 1..Len(obj.a) : obj.a[i].s = key].a[1]

\* a field of a derived struct: a missing field is an error
Required(de(_), obj, key) == IF HasKey(obj, key) THEN de(Field(obj, key)) ELSE Err

\* an Option field of a derived struct: a missing field is None
Optional(de(_), obj, key) ==
    IF HasKey(obj, key) THEN deserialize_option(de, Field(obj, key)) ELSE Ok(None)

\* the characters of the strings of the sample objects
Chars(str) ==
    CASE str = "t1_a" -> <<"t", "1", "_", "a">>
      [] str = "t3_a" -> <<"t", "3", "_", "a">>
      [] str = "a" -> <<"a">>
      [] OTHER -> <<>>

\* Deserialize for ThingFullname, of a JSON value
deserialize_thing_fullname(json) ==
    IF json.type = "string" /\ try_from(Chars(json.s)).ok THEN Ok(json.s) ELSE Err

\* derive(Deserialize) for MoreCommentData
deserialize_more(json) ==
    IF json.type # "object" THEN Err
    ELSE LET id_ == Required(deserialize_string, json, "id")
             name == Required(deserialize_thing_fullname, json, "name")
             parent_id == Required(deserialize_thing_fullname, json, "parent_id")
             count == Required(deserialize_i32, json, "count")
             depth == Required(deserialize_i32, json, "depth")
         IN IF id_.ok /\ name.ok /\ parent_id.ok /\ count.ok /\ depth.ok
            THEN Ok([id |-> id_.v, name |-> name.v, parent_id |-> parent_id.v,
                     count |-> count.v, depth |-> depth.v])
            ELSE Err

Empty == <<>>

Replies(listing) == <<listing>>

RECURSIVE deserialize_replies(_)
RECURSIVE deserialize_child(_)
RECURSIVE deserialize_listing(_)

\* derive(Deserialize) for ArticleCommentData; `id` stands for the flattened
\* CommonCommentData
deserialize_comment(json) ==
    IF json.type # "object" THEN Err
    ELSE LET id_ == Required(deserialize_string, json, "id")
             depth == Required(deserialize_i32, json, "depth")
             replies == Required(deserialize_replies, json, "replies")
         IN IF id_.ok /\ depth.ok /\ replies.ok
            THEN Ok([id |-> id_.v, depth |-> depth.v, replies |-> replies.v])
            ELSE Err

\* derive(Deserialize) for ArticleCommentOrMoreComments, tag = "kind",
\* content = "data"
deserialize_child(json) ==
    IF json.type # "object" \/ ~HasKey(json, "kind") \/ ~HasKey(json, "data") THEN Err
    ELSE LET kind_ == Field(json, "kind")
             data == CASE kind_ = JString("t1") -> deserialize_comment(Field(json, "data"))
                       [] kind_ = JString("more") -> deserialize_more(Field(json, "data"))
                       [] OTHER -> Err
         IN IF data.ok THEN Ok([kind |-> kind_.s, data |-> data.v]) ELSE Err

\* derive(Deserialize) for Listing<ArticleCommentOrMoreComments>
deserialize_listing(json) ==
    IF json.type # "object" THEN Err
    ELSE LET modhash == Optional(deserialize_string, json, "modhash")
             dist == Optional(deserialize_i32, json, "dist")
             after == Optional(deserialize_thing_fullname, json, "after")
             before == Optional(deserialize_thing_fullname, json, "before")
             children == Required(LAMBDA c : deserialize_seq(deserialize_child, c),
                                  json, "children")
         IN IF modhash.ok /\ dist.ok /\ after.ok /\ before.ok /\ children.ok
            THEN Ok([modhash |-> modhash.v, dist |-> dist.v, after |-> after.v,
                     before |-> before.v, children |-> children.v])
            ELSE Err

\* derive(Deserialize) for BasicThing<Listing<..>>
deserialize_outer_basic_listing(json) ==
    LET kind_ == Optional(deserialize_string, json, "kind")
        data == Required(deserialize_listing, json, "data")
    IN IF kind_.ok /\ data.ok THEN Ok([kind |-> kind_.v, data |-> data.v]) ELSE Err

\* Deserialize for ArticleReplies: deserialize_any with a visitor that has
\* visit_map and the string visits only
deserialize_replies(json) ==
    CASE json.type = "object" ->
            LET listing == deserialize_outer_basic_listing(json)
            IN IF listing.ok THEN Ok(Replies(listing.v)) ELSE Err
      [] json.type = "string" -> Ok(Empty)
      [] OTHER -> Err

serialize_option_string(v) == IF v = None THEN JNull ELSE JString(v[1])

serialize_more(data) ==
    JObjectOf(<<Entry("id", JString(data.id)), Entry("name", JString(data.name)),
                Entry("parent_id", JString(data.parent_id)),
                Entry("count", serialize_i32(data.count)),
                Entry("depth", serialize_i32(data.depth))>>)

RECURSIVE serialize_replies(_)

\* derive(Serialize) for ArticleCommentOrMoreComments and its contents
serialize_child(child) ==
    JObjectOf(<<Entry("kind", JString(child.kind)),
                Entry("data",
                      IF child.kind = "more" THEN serialize_more(child.data)
                      ELSE JObjectOf(<<Entry("id", JString(child.data.id)),
                                       Entry("depth", serialize_i32(child.data.depth)),
                                       Entry("replies",
                                             serialize_replies(child.data.replies))>>))>>)

\* derive(Serialize) for BasicThing<Listing<..>>
serialize_outer_basic_listing(listing) ==
    JObjectOf(<<Entry("kind", serialize_option_string(listing.kind)),
                Entry("data",
                      JObjectOf(<<
                          Entry("modhash", serialize_option_string(listing.data.modhash)),
                          Entry("dist", IF listing.data.dist = None THEN JNull
                                        ELSE serialize_i32(listing.data.dist[1])),
                          Entry("after", serialize_option_string(listing.data.after)),
                          Entry("before", serialize_option_string(listing.data.before)),
                          Entry("children",
                                JArray([i \in 1..Len(listing.data.children) |->
                                          serialize_child(listing.data.children[i])]))>>))>>)

\* mutant: Empty is written as null
serialize_empty_as_null(self) ==
    IF self = Empty THEN JNull ELSE serialize_outer_basic_listing(self[1])

\* Serialize for ArticleReplies
serialize_replies(self) ==
    IF self = Empty THEN JString("") ELSE serialize_outer_basic_listing(self[1])

MoreObject(name) ==
    JObjectOf(<<Entry("id", JString("a")), Entry("name", JString(name)),
                Entry("parent_id", JString("t3_a")),
                Entry("count", JNumber(NumLit(FALSE, "1", ""))),
                Entry("depth", JNumber(NumLit(FALSE, "0", ""))),
                Entry("children", JArray(<<>>))>>)

CommentObject(replies) ==
    JObjectOf(<<Entry("id", JString("a")),
                Entry("depth", JNumber(NumLit(FALSE, "0", "")))>> \o replies)

ListingObject(kind_, after, children) ==
    JObjectOf(kind_ \o <<Entry("data",
        JObjectOf(after \o <<Entry("children", JArray(children))>>))>>)

Child(kind_, data) == JObjectOf(<<Entry("kind", JString(kind_)), Entry("data", data)>>)

ChildSamples ==
    {Child("more", MoreObject("t1_a")), Child("more", MoreObject("a")),
     Child("t3", MoreObject("t1_a")), Child("more", JString("")),
     JObjectOf(<<Entry("data", MoreObject("t1_a"))>>),
     Child("t1", CommentObject(<<>>)),
     Child("t1", CommentObject(<<Entry("replies", JString(""))>>)),
     Child("t1", CommentObject(<<Entry("replies", JNull)>>)),
     Child("t1", CommentObject(<<Entry("replies",
         ListingObject(<<>>, <<>>, <<Child("more", MoreObject("t1_a"))>>))>>))}

RepliesInputs ==
    {[fn |-> "replies", pc |-> "ready", arg |-> json, out |-> Err,
      json |-> JNull, again |-> Err] :
        json \in {JString(""), JString("s"), JNull, JBool(FALSE), JArray(<<>>),
                  JNumber(NumLit(FALSE, "1", "")), JObject,
                  JObjectOf(<<Entry("kind", JString("Listing"))>>)}
            \cup {ListingObject(kind_, after, children) :
                    kind_ \in {<<>>, <<Entry("kind", JNull)>>,
                               <<Entry("kind", JString("Listing"))>>,
                               <<Entry("kind", JBool(TRUE))>>},
                    after \in {<<>>, <<Entry("after", JNull)>>,
                               <<Entry("after", JString("t1_a"))>>,
                               <<Entry("after", JString("a"))>>},
                    children \in SeqsUpTo(ChildSamples, MaxChildren)}}

RepliesDeserialize ==
    /\ calc.fn = "replies"
    /\ Return(deserialize_replies(calc.arg))

RepliesSerialize ==
    /\ calc.fn = "replies" /\ calc.pc = "done" /\ calc.out.ok
    /\ calc' = [calc EXCEPT !.pc = "encoded", !.json = serialize_replies(calc.out.v)]
    /\ UNCHANGED <<st, ratelimit, rl_holder, nohdr, access_token, tok_writer, env>>

RepliesDeserializeAgain ==
    /\ calc.fn = "replies" /\ calc.pc = "encoded"
    /\ calc' = [calc EXCEPT !.pc = "decoded_again",
                            !.again = deserialize_replies(calc.json)]
    /\ UNCHANGED <<st, ratelimit, rl_holder, nohdr, access_token, tok_writer, env>>

----------------------------------------------------------------------------
(* PostResponse and post_with_response (src/src/api/response/mod.rs,       *)
(* src/src/client/traits.rs, src/src/util/defaults.rs)                      *)

\* ApiError(pub [String; 3])
deserialize_api_error(json) ==
    IF json.type = "array" /\ Len(json.a) = 3
    THEN deserialize_seq(deserialize_string, json)
    ELSE Err

\* util::defaults::null_to_empty: Option<Vec<T>>, None is the empty vector
null_to_empty(json) ==
    LET key == deserialize_option(LAMBDA v : deserialize_seq(deserialize_api_error, v), json)
    IN IF ~key.ok THEN Err
       ELSE IF key.v # None THEN Ok(key.v[1]) ELSE Ok(<<>>)

\* derive(Deserialize) for PostResponse<String> and PostResponseInner<String>
deserialize_post_response(json) ==
    IF json.type # "object" \/ ~HasKey(json, "json") \/ Field(json, "json").type # "object"
    THEN Err
    ELSE LET inner == Field(json, "json")
             errors == Required(null_to_empty, inner, "errors")
             data == Optional(deserialize_string, inner, "data")
         IN IF errors.ok /\ data.ok THEN Ok([errors |-> errors.v, data |-> data.v])
            ELSE Err

PostResult(kind_, errors, data) == [kind |-> kind_, errors |-> errors, data |-> data]

\* RedditClient::post_with_response, after post_with_response_raw returned
\* the decoded response; unwrap panics on None
post_with_response(response) ==
    IF Len(response.errors) > 0
    THEN PostResult("RedditError", response.errors, None)
    ELSE IF response.data = None THEN PostResult("Panic", <<>>, None)
         ELSE PostResult("Ok", <<>>, response.data)

ApiErrorSamples ==
    {JArray(<<JString("RATELIMIT"), JString("m"), JString("vdelay")>>),
     JArray(<<JString("BAD"), JString("m"), JString("f")>>),
     JArray(<<JString("BAD"), JString("m")>>)}

PostResponseInputs ==
    {[fn |-> "post_with_response", pc |-> "ready",
      arg |-> JObjectOf(<<Entry("json", JObjectOf(errors \o data))>>),
      response |-> Err, out |-> PostResult("Pending", <<>>, None)] :
        errors \in {<<>>, <<Entry("errors", JNull)>>, <<Entry("errors", JString("s"))>>}
                   \cup {<<Entry("errors", JArray(e))>> : e \in SeqsUpTo(ApiErrorSamples, 2)},
        data \in {<<>>, <<Entry("data", JNull)>>, <<Entry("data", JString("v"))>>,
                  <<Entry("data", JBool(TRUE))>>}}

\* a response that does not decode is the error of post_with_response_raw
PostWithResponse ==
    /\ calc.fn = "post_with_response" /\ calc.pc = "ready"
    /\ LET response == deserialize_post_response(calc.arg)
       IN calc' = [calc EXCEPT !.pc = "done", !.response = response,
                               !.out = IF response.ok THEN post_with_response(response.v)
                                       ELSE PostResult("Network", <<>>, None)]
    /\ UNCHANGED <<st, ratelimit, rl_holder, nohdr, access_token, tok_writer, env>>

----------------------------------------------------------------------------
(* Sequences of Ratelimit::delay and Ratelimit::update on a clock          *)
(* (src/src/client/ratelimit.rs); `now` and the instants of rl are          *)
(* microseconds since the Ratelimit was made.                               *)

ShiftRl(rl, d) == [rl EXCEPT !.next_request = @ + d, !.next_reset = @ + d]

\* Ratelimit::update called at the instant now
UpdateAt(rl, headers, now) == ShiftRl(update(ShiftRl(rl, 0 - now), headers), now)

\* the instant Ratelimit::delay returns when called at the instant now
DelayUntil(rl, now) ==
    LET rel == ShiftRl(rl, 0 - now)
    IN now + (rel.next_request - delay(rel).next_request)

RatelimitHeaderSamples ==
    {NoRatelimitHeaders, Headers(99, 1, 595), Headers(50, 50, 320), Headers(49, 51, 290),
     Headers(1, 99, 2), Headers(0, 100, 3), Headers(0, 100, 15)}

\* time passes
RatelimitAdvance ==
    /\ calc.fn = "ratelimit"
    /\ \E secs \in {1, 5} :
        /\ calc.now + secs * MICROS <= MaxClock * MICROS
        /\ calc' = [calc EXCEPT !.now = @ + secs * MICROS, !.pc = "idle"]
    /\ UNCHANGED <<st, ratelimit, rl_holder, nohdr, access_token, tok_writer, env>>

\* with_ratelimits: `lock.delay()`
RatelimitDelay ==
    /\ calc.fn = "ratelimit" /\ ~calc.delayed
    /\ calc' = [calc EXCEPT !.now = DelayUntil(calc.rl, calc.now), !.delayed = TRUE,
                            !.pc = "idle"]
    /\ UNCHANGED <<st, ratelimit, rl_holder, nohdr, access_token, tok_writer, env>>

\* `lock.update(response.headers())`, or Ratelimit::update called directly
RatelimitUpdate ==
    /\ calc.fn = "ratelimit" /\ calc.n < MaxUpdates
    /\ \E headers \in RatelimitHeaderSamples :
        calc' = [calc EXCEPT !.rl = UpdateAt(calc.rl, headers, calc.now),
                             !.prev = calc.rl, !.headers = headers, !.n = @ + 1,
                             !.pc = "updated",
                             !.after_delay = calc.delayed, !.delayed = FALSE,
                             !.decreasing = @ /\ headers.present
                                              /\ headers.remaining < calc.rl.remaining]
    /\ UNCHANGED <<st, ratelimit, rl_holder, nohdr, access_token, tok_writer, env>>

----------------------------------------------------------------------------
(* Specifications *)

Off == Call("none", "off")

InitShared ==
    /\ ratelimit = RatelimitNew
    /\ rl_holder = 0
    /\ nohdr = 0
    /\ access_token = form_auth_header(InitialToken)
    /\ tok_writer = 0
    /\ calc = NoCalc

\* one call on a client of any tier
Init ==
    /\ InitShared
    /\ env = SingleEnv
    /\ \E tier \in Tiers :
        st = [p \in Procs |-> IF p = 1 THEN Call(tier, "build") ELSE Off]

\* concurrent calls on one Authed client
InitConc ==
    /\ InitShared
    /\ env = ConcEnv
    /\ st = [p \in Procs |-> Call("authed", "build")]

Next ==
    \E p \in Procs :
        \/ Build(p)
        \/ Lock(p)
        \/ Delay(p)
        \/ Send(p)
        \/ UpdateRatelimit(p)
        \/ Classify(p)
        \/ Sleep(p)
        \/ Relogin(p)
        \/ LoginParse(p)
        \/ Handler(p)

Spec == Init /\ [][Next]_vars

SpecConc == InitConc /\ [][Next]_vars

\* one operation on a client: OAuthClient::login, AuthedClient::logout, or
\* a call on an Authed client
InitOps ==
    /\ InitShared
    /\ env = OpsEnv
    /\ \E op \in {"login", "logout", "call"} :
        st = [p \in Procs |->
                IF p # 1 THEN Off
                ELSE IF op = "login" THEN [Call("oauth", "build") EXCEPT !.frame = "login"]
                ELSE IF op = "logout" THEN Call("authed", "logout")
                ELSE Call("authed", "build")]

NextOps ==
    \E p \in Procs :
        \/ Build(p)
        \/ Lock(p)
        \/ Delay(p)
        \/ Send(p)
        \/ UpdateRatelimit(p)
        \/ Classify(p)
        \/ Sleep(p)
        \/ Relogin(p)
        \/ LoginParse(p)
        \/ Handler(p)
        \/ OAuthLogin(p)
        \/ Logout(p)

SpecOps == InitOps /\ [][NextOps]_vars

\* Subreddit::sticky on a client of any tier
InitSticky ==
    /\ InitShared
    /\ env = StickyEnv
    /\ \E tier \in Tiers :
        st = [p \in Procs |->
                IF p # 1 THEN Off
                ELSE Call(tier, IF tier = "unauth" THEN "get" ELSE "build")]

NextSticky ==
    \E p \in Procs :
        \/ UnauthedGet(p)
        \/ Build(p)
        \/ Lock(p)
        \/ Delay(p)
        \/ Send(p)
        \/ UpdateRatelimit(p)
        \/ Classify(p)
        \/ Sleep(p)
        \/ Relogin(p)
        \/ LoginParse(p)
        \/ Handler(p)
        \/ Sticky(p)

SpecSticky == InitSticky /\ [][NextSticky]_vars

NextRatelimit ==
    \/ RatelimitAdvance
    \/ RatelimitDelay
    \/ RatelimitUpdate

\* no call runs; one function is evaluated on one input
InitIdle ==
    /\ ratelimit = RatelimitNew
    /\ rl_holder = 0
    /\ nohdr = 0
    /\ access_token = form_auth_header(InitialToken)
    /\ tok_writer = 0
    /\ env = OpsEnv
    /\ st = [p \in Procs |-> Off]

InitEndpoint == InitIdle /\ calc \in EndpointInputs

NextEndpoint ==
    \/ EndpointBuild
    \/ EndpointJoin
    \/ LoginRequest
    \/ LogoutRequest

SpecEndpoint == InitEndpoint /\ [][NextEndpoint]_vars

InitRatelimit ==
    /\ InitIdle
    /\ calc = [fn |-> "ratelimit", pc |-> "idle", now |-> 0, rl |-> RatelimitNew,
               prev |-> RatelimitNew, headers |-> NoRatelimitHeaders, n |-> 0,
               delayed |-> FALSE, after_delay |-> FALSE, decreasing |-> TRUE]

\* std::sync::RwLock: `access_token.read()` in AuthClientInner::request and
\* `access_token.write()` in execute_with_retries do not yield to the
\* scheduler; while another task holds the write guard they block the thread
BlockOnToken(p) ==
    /\ \/ st[p].pc = "build" /\ ~CanReadToken(st[p])
       \/ st[p].pc = "relogin" /\ ~CanWriteToken
    /\ st[tok_writer].pc \in {"send", "sleep"}    \* the writer is suspended in an await
    /\ Set(p, [st[p] EXCEPT !.pc = "blocked"])
    /\ UNCHANGED <<ratelimit, rl_holder, nohdr, access_token, tok_writer, env, calc>>

\* the one thread of the scheduler is inside a blocking call
ThreadBlocked == \E p \in Procs : st[p].pc = "blocked"

\* concurrent calls on one Authed client, polled one at a time by one
\* thread: no task is polled while the thread is blocked
NextCoop ==
    \E p \in Procs :
        \/ ~ThreadBlocked /\ Build(p)
        \/ ~ThreadBlocked /\ Lock(p)
        \/ ~ThreadBlocked /\ Delay(p)
        \/ ~ThreadBlocked /\ Send(p)
        \/ ~ThreadBlocked /\ UpdateRatelimit(p)
        \/ ~ThreadBlocked /\ Classify(p)
        \/ ~ThreadBlocked /\ Sleep(p)
        \/ ~ThreadBlocked /\ Relogin(p)
        \/ ~ThreadBlocked /\ LoginParse(p)
        \/ ~ThreadBlocked /\ Handler(p)
        \/ ~ThreadBlocked /\ BlockOnToken(p)

SpecCoop == InitConc /\ [][NextCoop]_vars

SpecRatelimit == InitRatelimit /\ [][NextRatelimit]_vars

InitFullname == InitIdle /\ calc \in FullnameInputs

NextFullname ==
    \/ TryFrom
    \/ DeserializeFullname
    \/ FromCommentId
    \/ FromSubmissionId
    \/ FromSubmissionLink

SpecFullname == InitFullname /\ [][NextFullname]_vars

InitSerde ==
    InitIdle /\ (calc \in EditedInputs \/ calc \in SerdeInputs \/ calc \in RepliesInputs
                 \/ calc \in PostResponseInputs)

NextSerde ==
    \/ EditedDeserialize
    \/ ModdataDeserialize
    \/ ModdataSerialize
    \/ ModdataDeserializeAgain
    \/ RepliesDeserialize
    \/ RepliesSerialize
    \/ RepliesDeserializeAgain
    \/ PostWithResponse

SpecSerde == InitSerde /\ [][NextSerde]_vars

----------------------------------------------------------------------------
(* Properties *)

\* the calls that run the retry executor (ClientInner::execute, OAuthClient::execute)
Executor(p) == st[p].tier \in {"oauth", "authed"}

\* min(60, 2^n) as the specification states it
SpecBackoff(n) == IF n >= 6 THEN 60 ELSE Pow2(n)

\* a header value that is a decimal number
IsDecimal(v) == v # <<>> /\ \A i \in 1..Len(v) : IsDigit(v[i])

\* C1: an Authed call performs at most one re-login, and a 401 answering the
\* attempt made after the re-login ends the call with CredentialsNotSet: no
\* further login, no further request.
C1_OneRelogin ==
    \A p \in Procs : st[p].tier = "authed" =>
        /\ st[p].logins <= 1
        /\ st[p].n401 <= 2
        /\ st[p].n401 = 2 =>
            /\ st[p].pc = "done"
            /\ st[p].result = credentials_not_set
            /\ st[p].logins = 1

C1_Witness ==
    \E p \in Procs :
        /\ st[p].tier = "authed" /\ st[p].n401 = 2 /\ st[p].logins = 1
        /\ st[p].result = credentials_not_set

\* C2: after a 401, a successful re-login and a 2xx, the call returns one
\* success; every request built after the re-login carries the token the
\* re-login stored, not the one the first attempt carried.
C2_RetryCarriesNewToken ==
    \A p \in Procs :
        st[p].tier = "authed" /\ st[p].login_token # "none" /\ st[p].frame = "call" =>
            /\ st[p].has_retried
            /\ st[p].request.target = "api" =>
                /\ st[p].request.authorization = form_auth_header(st[p].login_token)
                /\ st[p].request.authorization # st[p].first_authorization
            /\ st[p].retries = 0 /\ st[p].last \in {"Ok", "HandlerOk"} =>
                /\ st[p].sent = 1 /\ st[p].n401 = 1 /\ st[p].logins = 1
                /\ st[p].pc \in {"handler", "done"}
                /\ st[p].pc = "done" => st[p].result.kind = "Ok"

C2_Witness ==
    \E p \in Procs :
        /\ st[p].tier = "authed" /\ st[p].has_retried /\ st[p].pc = "done"
        /\ st[p].n401 = 1 /\ st[p].retries = 0 /\ st[p].result.kind = "Ok"
        /\ st[p].first_authorization = <<"Bearer", "t0">>
        /\ st[p].request.authorization = <<"Bearer", "t1">>

\* C3: k answers of 500 (k <= 32) and then a 2xx: execute returns that 2xx,
\* after k+1 requests, having slept min(60, 2^i) seconds after the i-th 500.
C3_Backoff500ThenOk ==
    \A p \in Procs : Executor(p) /\ st[p].only \in {"none", "500"} =>
        /\ st[p].pc = "sleep" =>
            /\ st[p].sleep_secs = SpecBackoff(st[p].retries)
            /\ st[p].sent = st[p].retries
            /\ st[p].slept = st[p].retries - 1
        /\ st[p].answer.status = 200 /\ st[p].pc \notin {"update", "classify"} =>
            /\ st[p].retries <= 32
            /\ st[p].sent = st[p].retries + 1
            /\ st[p].slept = st[p].retries
            /\ st[p].pc \in {"handler", "login_parse", "done"}
            /\ st[p].tier = "oauth" =>
                /\ st[p].pc = "done"
                /\ st[p].result.kind = "Ok" /\ st[p].result.status = 200

C3_Witness ==
    \E p \in Procs :
        /\ st[p].tier = "oauth" /\ st[p].only = "500" /\ st[p].retries = 32
        /\ st[p].pc = "done" /\ st[p].result.kind = "Ok"
        /\ st[p].sent = 33 /\ st[p].slept = 32

\* C4: when every attempt is answered 500, execute ends with the captured
\* error as a Network error once the retry number exceeds 32: after 33
\* requests and 32 sleeps.  When every attempt fails with a connection
\* reset, it ends the same way once the number exceeds 16: after 17 requests.
C4_RetryCapsEndTheCall ==
    \A p \in Procs : Executor(p) =>
        /\ st[p].only = "500" /\ st[p].last = "500" =>
            IF st[p].retries > 32
            THEN /\ st[p].pc = "done"
                 /\ st[p].result = network(StatusError(500))
                 /\ st[p].retries = 33 /\ st[p].sent = 33 /\ st[p].slept = 32
            ELSE st[p].pc = "sleep"
        /\ st[p].only = "io" /\ st[p].last = "io" =>
            IF st[p].retries > 16
            THEN /\ st[p].pc = "done"
                 /\ st[p].result = network(IoError("reset"))
                 /\ st[p].retries = 17 /\ st[p].sent = 17 /\ st[p].slept = 16
            ELSE st[p].pc = "sleep"

C4_Witness ==
    /\ \E p \in Procs :
        /\ Executor(p) /\ st[p].only = "500" /\ st[p].last = "500"
        /\ st[p].pc = "done" /\ st[p].sent = 33 /\ st[p].slept = 32
        /\ st[p].result = network(StatusError(500))

\* C5: a 429 whose Retry-After is a decimal number N makes the executor
\* sleep N seconds, not the backoff value, and try again; this cause never
\* ends the call, and the first later 2xx is what execute returns.
C5_RetryAfterSleepsN ==
    \A p \in Procs : Executor(p) =>
        /\ st[p].last = "RetryAfter" => st[p].pc = "sleep"
        /\ /\ st[p].answer.status = 429 /\ st[p].answer.has_retry_after
           /\ IsDecimal(st[p].answer.retry_after)
           /\ st[p].pc \notin {"update", "classify"}
           => /\ st[p].pc = "sleep" /\ st[p].last = "RetryAfter"
              /\ st[p].sleep_secs = DigitsVal(st[p].answer.retry_after, 0)
              /\ st[p].sent = st[p].retries
              /\ st[p].slept = st[p].retries - 1
        /\ /\ st[p].only = "RetryAfter" /\ st[p].answer.status = 200
           /\ st[p].pc \notin {"update", "classify"}
           => /\ st[p].sent = st[p].retries + 1
              /\ st[p].slept = st[p].retries
              /\ st[p].pc \in {"handler", "login_parse", "done"}
              /\ st[p].tier = "oauth" =>
                    st[p].pc = "done" /\ st[p].result.kind = "Ok"

C5_Witness ==
    \E p \in Procs :
        /\ Executor(p) /\ st[p].only = "RetryAfter" /\ st[p].pc = "sleep"
        /\ st[p].answer.retry_after = <<"1", "2", "0">>
        /\ st[p].sleep_secs = 120 /\ st[p].retries = MaxRetries

\* C6: a 429 without a parsable Retry-After is retried without a cap, and on
\* retry n the executor sleeps min(60, 2^n) seconds, for every n >= 1.
C6_Backoff429EveryN ==
    \A p \in Procs : Executor(p) /\ st[p].last = "429" =>
        /\ st[p].pc = "sleep"
        /\ st[p].sleep_secs = SpecBackoff(st[p].retries)

\* C7: a 400 ends the call after that attempt, without retry or sleep, with
\* a RedditError that carries the response body, on both executors.
C7_BadRequestIsRedditError ==
    \A p \in Procs :
        /\ Executor(p) /\ st[p].answer.status = 400
        /\ st[p].pc \notin {"update", "classify"}
        => /\ st[p].pc = "done"
           /\ st[p].result = reddit_error(ErrorBody.text)

\* C8: a status of 4xx/5xx other than 400, 401, 429 and 500 ends the call
\* with FullNetwork(response, error), and a transport error that is not a
\* connection reset ends it with Network(error): no sleep and no request
\* follows the attempt.
C8_TerminalNotRetried ==
    \A p \in Procs : Executor(p) /\ st[p].pc \notin {"update", "classify"} =>
        /\ /\ st[p].answer.status \in 400..599
           /\ st[p].answer.status \notin {400, 401, 429, 500}
           => /\ st[p].pc = "done"
              /\ st[p].result = Result("FullNetwork", st[p].answer.status,
                                       StatusError(st[p].answer.status), "")
              /\ st[p].sent = st[p].retries + 1
              /\ st[p].slept = st[p].retries
        /\ /\ st[p].answer.status = 0
           /\ st[p].answer.io \notin {"none", "reset"}
           => /\ st[p].pc = "done"
              /\ st[p].result = network(IoError(st[p].answer.io))
              /\ st[p].sent = st[p].retries + 1
              /\ st[p].slept = st[p].retries

C8_Witness ==
    \E p \in Procs :
        /\ Executor(p) /\ st[p].pc = "done" /\ st[p].answer.status = 503
        /\ st[p].result.kind = "FullNetwork" /\ st[p].result.status = 503
        /\ st[p].retries = 2 /\ st[p].sent = 3

\* C9: when the handler fails on a 2xx response, execute_with_retries
\* returns a Parse error, and the request is not reissued.
C9_HandlerFailureIsParse ==
    \A p \in Procs : st[p].last = "HandlerFailed" =>
        /\ st[p].pc = "done"
        /\ st[p].result.kind = "Parse"

\* C10: delay, send and update are one critical section under the mutex of
\* the ratelimiter: no two calls are inside it at once, and from a call's
\* delay to its update no other call touches the ratelimiter, so each delay
\* reads the state the section before it left.
C10_RatelimitCriticalSection ==
    /\ \A p, q \in Procs :
        /\ st[p].pc \in {"delay", "send", "update"}
        /\ st[q].pc \in {"delay", "send", "update"}
        => p = q
    /\ \A p \in Procs :
        /\ st[p].pc \in {"delay", "send", "update"} => rl_holder = p
        /\ st[p].pc \in {"send", "update"} => ratelimit = st[p].rl_seen

C10_Witness ==
    \E p, q \in Procs :
        /\ p # q /\ st[p].pc = "send" /\ st[q].pc = "lock"
        /\ ratelimit # delay(RatelimitNew) /\ ratelimit = st[p].rl_seen
        /\ st[q].sent >= 1

\* a call whose attempt_login is in progress
InRelogin(p) == st[p].frame = "login" /\ st[p].pc # "done"

\* C11: for one Authed instance, at most one re-login (attempt_login under
\* the write lock of the token cell) is in progress at any time, however the
\* concurrent calls that received 401 interleave.
C11_OneReloginAtATime ==
    /\ \A p, q \in Procs : InRelogin(p) /\ InRelogin(q) => p = q
    /\ \A p \in Procs : InRelogin(p) => tok_writer = p

C11_Witness ==
    \E p, q \in Procs :
        /\ p # q /\ InRelogin(p) /\ st[p].pc = "send" /\ tok_writer = p
        /\ st[q].pc = "relogin" /\ st[q].n401 = 1

\* a call that received 401 and is past the re-login step of the loop
PastRelogin(p) ==
    st[p].has_retried /\ st[p].frame = "call" /\ st[p].pc # "relogin"

\* C12: when two concurrent calls received 401 for the same stale token, the
\* one that gets the write lock second finds the token replaced and does not
\* log in again: once both are past the re-login step, one token request was
\* sent and the stored token is the one of that single re-login.
C12_SecondWaiterKeepsToken ==
    \A p, q \in Procs :
        /\ p # q /\ PastRelogin(p) /\ PastRelogin(q)
        /\ st[p].stale_authorization = form_auth_header(InitialToken)
        /\ st[q].stale_authorization = form_auth_header(InitialToken)
        => /\ st[p].logins + st[q].logins = 1
           /\ st[p].login_token = "none" \/ st[q].login_token = "none"

\* C13: when the token endpoint answers a login or a re-login with
\* {error: e}, the operation ends with Auth(e): no further token request is
\* sent, an Authed call does not retry its request, and the stored token is
\* the one from before the re-login.
C13_LoginErrorIsAuth ==
    \A p \in Procs : st[p].last = "ErrorData" =>
        /\ st[p].pc = "done" /\ st[p].frame = "login"
        /\ st[p].result = Result("Auth", 0, NoError, "invalid_grant")
        /\ st[p].answer.status = 200
        /\ st[p].sent = st[p].retries + 1
        /\ access_token = form_auth_header(InitialToken)
        /\ tok_writer = 0
        /\ st[p].tier = "authed" =>
            /\ st[p].logins = 1 /\ st[p].n401 = 1
            /\ st[p].stale_authorization = form_auth_header(InitialToken)

C13_Witness ==
    \E p \in Procs :
        /\ st[p].tier = "authed" /\ st[p].last = "ErrorData" /\ st[p].pc = "done"
        /\ st[p].result.kind = "Auth" /\ st[p].n401 = 1 /\ st[p].retries = 1

\* C14: every request issued through an OAuth or Authed client, those of
\* login, re-login and logout included, passes through the ratelimiter:
\* delay() before the send, update() on the headers of the response.
C14_EveryRequestRatelimited ==
    \A p \in Procs : Executor(p) =>
        /\ st[p].answer # NoResponse => st[p].limited # "none"
        /\ st[p].answer.status # 0 /\ st[p].pc # "update" => st[p].limited = "updated"

\* C15: the URL of every token request (login, re-login) and of the revoke
\* request (logout) is rooted at https://www.reddit.com whatever the base
\* URL of the client; the absolute URL of logout is sent as it is, without
\* the base URL before it.
C15_TokenUrlsRootedAtWww ==
    /\ calc.fn = "login_url" /\ calc.pc = "done" /\ calc.out # NoUrl =>
        StartsWith(calc.out, WWW_REDDIT \o <<"/">>)
    /\ calc.fn = "logout_url" /\ calc.pc = "done" =>
        StartsWith(calc.out, RevokeTokenEndpoint.path)

\* build as the specification states it: the base URL, one slash unless the
\* path brings its own, the path, ".json" right after the path when
\* with_dot_json, then "?" and the pairs in insertion order
SpecUrl(self, base) ==
    LET slash == IF self.path # <<>> /\ Head(self.path) = "/" THEN <<>> ELSE <<"/">>
        dot_json == IF self.with_dot_json THEN <<".json">> ELSE <<>>
        joined == base \o slash \o self.path \o dot_json
    IN PushQuery(IF self.query # <<>> THEN joined \o <<"?">> ELSE joined, self.query)

\* C16: build(base_url) is the base URL, one normalizing slash, the path,
\* ".json" directly after the path when with_dot_json (nothing otherwise),
\* then "?" and the pairs k=v in insertion order; an empty path gives
\* base_url/.json; join appends the other's path and pairs to self's.
C16_BuildAndJoin ==
    /\ calc.fn = "build" /\ calc.pc = "done" =>
        /\ calc.out = SpecUrl(calc.self, calc.base_url)
        /\ calc.self.path = <<>> /\ calc.self.query = <<>> /\ calc.self.with_dot_json =>
            calc.out = calc.base_url \o <<"/", ".json">>
    /\ calc.fn = "join" /\ calc.pc = "done" =>
        /\ calc.out.path = calc.self.path \o calc.other.path
        /\ calc.out.query = calc.self.query \o calc.other.query

\* C17: for every ThingFullname f made by try_from, deserialization,
\* from_comment_id, from_submission_id or from_submission_link, f.kind() has
\* length 2 and f.kind() + "_" + f.id() equals f.full().
C17_KindIdFull ==
    calc.fn \in {"try_from", "deserialize", "from_comment_id",
                 "from_submission_id", "from_submission_link"}
    /\ calc.pc = "done" /\ calc.out.ok =>
        /\ Len(kind(calc.out.v)) = 2
        /\ kind(calc.out.v) \o <<"_">> \o id(calc.out.v) = full(calc.out.v)

C17_Witness ==
    /\ calc.fn = "from_submission_link" /\ calc.pc = "done" /\ calc.out.ok
    /\ calc.arg = <<"/", "r", "/", "x", "/", "x", "/", "r">>
    /\ kind(calc.out.v) = <<"t", "3">> /\ id(calc.out.v) = <<"r">>

IsLowerBase36(b) == b \in {"t", "a", "1"}

\* the form t[0-9]_[a-z0-9]+
HasFullnameForm(s) ==
    /\ Len(s) >= 4
    /\ s[1] = "t" /\ s[2] = "1" /\ s[3] = "_"
    /\ \A i \in 4..Len(s) : IsLowerBase36(s[i])

\* C18: try_from and deserialization accept exactly the strings of the form
\* t[0-9]_[a-z0-9]+ and reject every other string.
C18_AcceptsExactlyTheForm ==
    /\ calc.fn = "try_from" /\ calc.pc = "done" =>
        (calc.out.ok <=> HasFullnameForm(calc.arg))
    /\ calc.fn = "deserialize" /\ calc.pc = "done" =>
        (calc.out.ok <=> calc.arg.type = "string" /\ HasFullnameForm(calc.arg.v))

\* C19: decoding an `edited` value, JSON false gives NotEdited, every JSON
\* number n, written as an integer or with a fraction, gives EditedAt(n), and
\* true, a string, null, an array and an object give a decode error.
C19_EditedDecoding ==
    calc.fn = "edited" /\ calc.pc = "done" =>
        CASE calc.arg = JBool(FALSE) -> calc.out.ok /\ calc.out.v = NotEdited
          [] calc.arg.type = "number" ->
                /\ calc.out.ok
                /\ calc.out.v = EditedAt(F64(calc.arg.n.neg, calc.arg.n.mag, calc.arg.n.frac))
          [] OTHER -> ~calc.out.ok

\* C20: decoding a submission object, the moderation value is None when
\* can_mod_post is absent or false; when it is true the moderation record is
\* decoded from the remaining keys, and encoding a decoded record and
\* decoding the result again gives an equal record.
C20_ModerationDecodingAndRoundTrip ==
    calc.fn = "moddata" /\ calc.pc # "ready" =>
        LET can_mod_post == Get(calc.arg, "can_mod_post")
        IN /\ can_mod_post \in {None, Some(JBool(FALSE))} =>
                calc.out.ok /\ calc.out.v = None
           /\ can_mod_post = Some(JBool(TRUE)) /\ calc.out.ok =>
                /\ calc.out.v # None
                /\ \A key \in BoolFields : calc.out.v[1][key] = calc.arg[key].b
                /\ \A key \in OptStringFields :
                      calc.out.v[1][key] =
                          IF key \in DOMAIN calc.arg /\ calc.arg[key] # JNull
                          THEN Some(calc.arg[key].s) ELSE None
           /\ /\ can_mod_post = Some(JBool(TRUE))
              /\ \A key \in Fields : Get(calc.arg, key) = Some(SampleObject[key])
              => calc.out.ok
           /\ calc.pc = "decoded_again" =>
                /\ calc.again.ok = calc.out.ok
                /\ calc.again.v = calc.out.v

C20_Witness ==
    /\ calc.fn = "moddata" /\ calc.pc = "decoded_again"
    /\ calc.out.ok /\ calc.out.v # None
    /\ calc.again.ok /\ calc.again.v = calc.out.v
    /\ Len(calc.out.v[1]["user_reports"]) = 1
    /\ "banned_at_utc" \in DOMAIN calc.arg /\ calc.arg["banned_at_utc"].type = "number"
    /\ calc.arg["banned_at_utc"].n.frac = "" /\ calc.json["banned_at_utc"].n.frac = "0"
    /\ calc.out.v[1]["approved_by"] = Some("s")

AllMore(replies) ==
    /\ replies # Empty
    /\ \A i \in 1..Len(replies[1].data.children) : replies[1].data.children[i].kind = "more"

\* C21: decoding a comment's `replies`, a JSON object is decoded as a listing
\* of children tagged t1 or more and a JSON string as Empty; Empty encodes to
\* the empty string, so the empty string round-trips to Empty, and a listing
\* of `more` children encodes and decodes back to an equal listing.
C21_RepliesDecodingAndRoundTrip ==
    calc.fn = "replies" /\ calc.pc # "ready" =>
        /\ calc.arg.type = "string" => calc.out.ok /\ calc.out.v = Empty
        /\ calc.arg.type = "object" /\ calc.out.ok =>
              /\ calc.out.v # Empty
              /\ LET children == calc.out.v[1].data.children
                     given == Field(Field(calc.arg, "data"), "children").a
                 IN /\ Len(children) = Len(given)
                    /\ \A i \in 1..Len(children) :
                          /\ children[i].kind \in {"t1", "more"}
                          /\ JString(children[i].kind) = Field(given[i], "kind")
        /\ calc.pc \in {"encoded", "decoded_again"} /\ calc.out.v = Empty =>
              calc.json = JString("")
        /\ calc.pc = "decoded_again" /\ (calc.out.v = Empty \/ AllMore(calc.out.v)) =>
              calc.again.ok /\ calc.again.v = calc.out.v

C21_Witness ==
    /\ calc.fn = "replies" /\ calc.pc = "decoded_again"
    /\ AllMore(calc.out.v) /\ Len(calc.out.v[1].data.children) = 2
    /\ calc.out.v[1].data.after = Some("t1_a")
    /\ calc.again.ok /\ calc.again.v = calc.out.v

\* C22: for every decoded PostResponse, post_with_response returns a
\* RedditError carrying the full error list when `errors` is non-empty, and
\* otherwise returns the unwrapped `data` as a value, with `errors` empty or
\* null and `data` present or absent.
C22_PostWithResponse ==
    calc.fn = "post_with_response" /\ calc.pc = "done" /\ calc.response.ok =>
        IF Len(calc.response.v.errors) > 0
        THEN calc.out.kind = "RedditError" /\ calc.out.errors = calc.response.v.errors
        ELSE calc.out.kind = "Ok" /\ calc.out.data = calc.response.v.data

\* C23: Subreddit::sticky returns Ok(None) when the about/sticky request is
\* answered 404 and an error value for every other non-2xx status, on every
\* client tier (Unauthed, OAuth, Authed).
C23_StickyNotFoundIsNone ==
    \A p \in Procs : st[p].pc = "returned" /\ st[p].answer.status # 0 =>
        /\ st[p].answer.status = 404 /\ st[p].request.target = "api" =>
              st[p].result = StickyNone
        /\ st[p].answer.status # 404 /\ error_for_status_ref(st[p].answer) =>
              st[p].result.kind \notin {"Ok", "Panic"}

\* C24: after any sequence of Ratelimit::update calls, whenever a call leaves
\* remaining <= 0, taken from X-Ratelimit-Remaining or produced by the local
\* decrement, next_request equals next_reset.
C24_ExhaustedWaitsForReset ==
    calc.fn = "ratelimit" /\ calc.n > 0 /\ calc.rl.remaining <= 0 =>
        calc.rl.next_request = calc.rl.next_reset

\* C25: for any sequence of successive Ratelimit::update calls made at
\* non-decreasing times with decreasing header-supplied remaining values,
\* next_request never moves backwards.
C25_NextRequestMonotonic ==
    calc.fn = "ratelimit" /\ calc.pc = "updated" /\ calc.decreasing =>
        calc.rl.next_request >= calc.prev.next_request

\* C25 (amended): when every update is made after Ratelimit::delay has
\* returned, as with_ratelimits does under the mutex, next_request never
\* moves backwards, whatever the headers are.
C25_NextRequestMonotonicAfterDelay ==
    calc.fn = "ratelimit" /\ calc.pc = "updated" /\ calc.after_delay =>
        calc.rl.next_request >= calc.prev.next_request

C25_Witness ==
    /\ calc.fn = "ratelimit" /\ calc.pc = "updated" /\ calc.after_delay
    /\ calc.n = 2 /\ calc.decreasing
    /\ calc.prev.next_request = MAX_DELAY_SECS * MICROS
    /\ calc.now = calc.prev.next_request
    /\ calc.rl.next_request = calc.now

\* C26: after every Ratelimit::update, next_request is at least the time of
\* the update, at most 10 seconds after it, and never later than next_reset.
C26_PauseBounded ==
    calc.fn = "ratelimit" /\ calc.pc = "updated" =>
        /\ calc.rl.next_request >= calc.now
        /\ calc.rl.next_request <= calc.now + MAX_DELAY_SECS * MICROS
        /\ calc.rl.next_request <= calc.rl.next_reset

\* C26 (amended): after every Ratelimit::update whose headers carry an
\* X-Ratelimit-Remaining above 0, next_request is at least the time of the
\* update, at most 10 seconds after it, and never later than next_reset.
C26_PauseBoundedWhenRemaining ==
    /\ calc.fn = "ratelimit" /\ calc.pc = "updated"
    /\ calc.headers.present /\ calc.headers.remaining > 0
    => /\ calc.rl.next_request >= calc.now
       /\ calc.rl.next_request <= calc.now + MAX_DELAY_SECS * MICROS
       /\ calc.rl.next_request <= calc.rl.next_reset

C26_Witness ==
    /\ calc.fn = "ratelimit" /\ calc.pc = "updated"
    /\ calc.headers = Headers(50, 50, 320) /\ calc.now > 0
    /\ calc.rl.next_request = calc.now + MAX_DELAY_SECS * MICROS

\* C27: a Ratelimit::update whose headers lack X-Ratelimit-Remaining
\* decrements remaining by exactly 1, increments used by exactly 1, and
\* leaves next_request and next_reset unchanged.
C27_UpdateWithoutHeaders ==
    calc.fn = "ratelimit" /\ calc.pc = "updated" /\ ~calc.headers.present =>
        /\ calc.rl.remaining = calc.prev.remaining - 1
        /\ calc.rl.used = calc.prev.used + 1
        /\ calc.rl.next_request = calc.prev.next_request
        /\ calc.rl.next_reset = calc.prev.next_reset

C27_Witness ==
    /\ calc.fn = "ratelimit" /\ calc.pc = "updated" /\ ~calc.headers.present
    /\ calc.n = 2 /\ calc.now > 0
    /\ calc.prev.remaining = 50 /\ calc.rl.remaining = 49 /\ calc.rl.used = 51
    /\ calc.rl.next_request > 0 /\ calc.rl.next_reset > calc.rl.next_request

\* C28: one retry counter counts the retries of every cause, so a capped
\* failure ends the call, without backoff, as soon as the total number of
\* retries exceeds its cap (16 for a connection reset, 32 for a 500), and
\* otherwise is retried after a backoff; after 16 Retry-After retries the
\* first connection reset ends the call, after 32 the first 500 does.
C28_OneRetryCounter ==
    \A p \in Procs : Executor(p) =>
        /\ st[p].last = "io" =>
            IF st[p].retries > MAX_RETRIES_IO
            THEN /\ st[p].pc = "done" /\ st[p].sleep_secs = 0
                 /\ st[p].result = network(IoError("reset"))
                 /\ st[p].sent = st[p].retries /\ st[p].slept = st[p].retries - 1
            ELSE st[p].pc = "sleep" /\ st[p].sleep_secs = SpecBackoff(st[p].retries)
        /\ st[p].last = "500" =>
            IF st[p].retries > MAX_RETRIES_500
            THEN /\ st[p].pc = "done" /\ st[p].sleep_secs = 0
                 /\ st[p].result = network(StatusError(500))
                 /\ st[p].sent = st[p].retries /\ st[p].slept = st[p].retries - 1
            ELSE st[p].pc = "sleep" /\ st[p].sleep_secs = SpecBackoff(st[p].retries)
        /\ st[p].only = "RetryAfter, io" /\ st[p].retries > MAX_RETRIES_IO =>
            st[p].pc = "done" /\ st[p].result = network(IoError("reset"))
        /\ st[p].only = "RetryAfter, 500" /\ st[p].retries > MAX_RETRIES_500 =>
            st[p].pc = "done" /\ st[p].result = network(StatusError(500))

C28_Witness ==
    \E p \in Procs :
        /\ Executor(p) /\ st[p].only = "RetryAfter, io" /\ st[p].last = "io"
        /\ st[p].retries = MAX_RETRIES_IO + 1 /\ st[p].pc = "done"
        /\ st[p].sent = MAX_RETRIES_IO + 1 /\ st[p].slept = MAX_RETRIES_IO
        /\ st[p].result = network(IoError("reset"))

\* a call that has not returned
Unfinished(p) == st[p].pc # "done"

\* C29: with concurrent calls on one Authed client polled by one thread, a
\* re-login holding the access-token write lock across the login request
\* included, no reachable state leaves an unfinished call without any step
\* the program can take: every call can still return.
C29_NoCallStuck == (\E p \in Procs : Unfinished(p)) => ENABLED NextCoop

\* C30: when the transport fails without a response, with_ratelimits
\* returns without calling update: the ratelimiter keeps the remaining, used,
\* next_request and next_reset it had when the request was sent, and the
\* mutex the call held is released.
C30_TransportFailureSkipsUpdate ==
    [][\A p \in Procs :
          /\ Executor(p) /\ st[p].pc = "send"
          /\ st'[p].pc = "classify" /\ st'[p].answer.status = 0
          => /\ ratelimit' = ratelimit /\ ratelimit' = st[p].rl_seen
             /\ rl_holder = p /\ rl_holder' = 0
             /\ st'[p].limited = "delayed"]_vars

\* a failed attempt made after an update, and the next call holding the mutex
C30_Witness ==
    \E p, q \in Procs :
        /\ p # q /\ Executor(p)
        /\ st[p].pc = "classify" /\ st[p].answer.status = 0
        /\ st[p].limited = "delayed"
        /\ ratelimit.used > 0
        /\ rl_holder = q /\ st[q].pc = "send"

====
